---- MODULE Spec2Model ----
(***************************************************************************)
(* Survey intake and review application: the persistence layer            *)
(* (src/api/database.js, the dual-engine version starting at line 738)    *)
(* and the HTTP surface in front of it (src/api/index.js).                *)
(*                                                                         *)
(* Representation.  A JavaScript string is a sequence of characters; a    *)
(* character is written as a TLA+ string naming it ("alef", "lam", "a",   *)
(* "."): Arabic letters carry their Unicode names.  A JavaScript value is *)
(* a record tagged by typeof, an object is the sequence of its own        *)
(* enumerable properties in insertion order.  The JSON text of a row's    *)
(* data column is kept as that property sequence; Render gives its        *)
(* characters where the engine looks at the text (LIKE).                  *)
(***************************************************************************)
EXTENDS Integers, Sequences, FiniteSets, TLC

(***************************************************************************)
(* Bounds of the model.                                                    *)
(***************************************************************************)
MaxRows == 2          \* rows per table
MaxNow == 1           \* last clock tick (Date.now() takes 0..MaxNow)
MaxLockWrites == 3    \* setSurveyLock calls remembered by the history
TicksPerDay == 2      \* clock ticks that share one calendar date
MaxCallers == 2       \* requests that call the storage operations at once
MaxCalls == 3         \* storage operations called by one request

(***************************************************************************)
(* Strings.                                                                *)
(***************************************************************************)
Digits == <<"0", "1", "2", "3", "4", "5", "6", "7", "8", "9">>

Dig(n) == Digits[n + 1]

\* Number.prototype.toString() of a natural number
RECURSIVE DecStr(_)
DecStr(n) == IF n < 10 THEN <<Dig(n)>> ELSE DecStr(n \div 10) \o <<Dig(n % 10)>>

\* String.prototype.includes
Includes(s, k) ==
  \E i \in 1..(Len(s) - Len(k) + 1) : SubSeq(s, i, i + Len(k) - 1) = k

\* String.prototype.startsWith
StartsWith(s, p) == Len(s) >= Len(p) /\ SubSeq(s, 1, Len(p)) = p

\* the index of the first occurrence of character c in s, 0 when absent
IndexOf(s, c) ==
  IF \E i \in 1..Len(s) : s[i] = c
  THEN CHOOSE i \in 1..Len(s) : s[i] = c /\ \A j \in 1..(i - 1) : s[j] # c
  ELSE 0

\* String.prototype.replace(c, r) with a string pattern: first occurrence only
ReplaceFirst(s, c, r) ==
  LET i == IndexOf(s, c)
  IN IF i = 0 THEN s ELSE SubSeq(s, 1, i - 1) \o r \o SubSeq(s, i + 1, Len(s))

\* String.prototype.split(c) for a one-character separator
RECURSIVE Split(_, _)
Split(s, c) ==
  LET i == IndexOf(s, c)
  IN IF i = 0 THEN <<s>>
     ELSE <<SubSeq(s, 1, i - 1)>> \o Split(SubSeq(s, i + 1, Len(s)), c)

\* String.prototype.trim
RECURSIVE Trim(_)
Trim(s) ==
  IF s = <<>> THEN s
  ELSE IF s[1] = " " THEN Trim(Tail(s))
  ELSE IF s[Len(s)] = " " THEN Trim(SubSeq(s, 1, Len(s) - 1))
  ELSE s

\* concatenation of a sequence of strings
RECURSIVE Concat(_)
Concat(ss) == IF ss = <<>> THEN <<>> ELSE ss[1] \o Concat(Tail(ss))

\* Array.prototype.join(sep)
RECURSIVE Join(_, _)
Join(ss, sep) ==
  IF ss = <<>> THEN <<>>
  ELSE IF Len(ss) = 1 THEN ss[1]
  ELSE ss[1] \o sep \o Join(Tail(ss), sep)

\* the members of a sequence
Range(s) == {s[i] : i \in 1..Len(s)}

\* the letters of a text in lower case
UpperCase ==
  <<"A", "B", "C", "D", "E", "F", "G", "H", "I", "J", "K", "L", "M",
    "N", "O", "P", "Q", "R", "S", "T", "U", "V", "W", "X", "Y", "Z">>

LowerCase ==
  <<"a", "b", "c", "d", "e", "f", "g", "h", "i", "j", "k", "l", "m",
    "n", "o", "p", "q", "r", "s", "t", "u", "v", "w", "x", "y", "z">>

LowerChar(c) ==
  IF c \in Range(UpperCase)
  THEN LowerCase[CHOOSE i \in 1..26 : UpperCase[i] = c]
  ELSE c

(***************************************************************************)
(* JavaScript values.                                                      *)
(***************************************************************************)
Undefined == [t |-> "undefined"]

Bool(b) == [t |-> "boolean", b |-> b]

Str(s) == [t |-> "string", s |-> s]

Num(n) == [t |-> "number", n |-> n]

Arr(a) == [t |-> "array", a |-> a]

\* an object: p is the sequence of its properties [k |-> name, v |-> value]
Obj(p) == [t |-> "object", p |-> p]

Prop(k, v) == [k |-> k, v |-> v]

\* ToBoolean
Truthy(v) ==
  CASE v.t = "undefined" -> FALSE
    [] v.t = "string" -> v.s # <<>>
    [] v.t = "number" -> v.n # 0
    [] v.t \in {"null", "NaN"} -> FALSE
    [] v.t = "boolean" -> v.b
    [] OTHER -> TRUE

\* String(v) for the values a payload holds
RECURSIVE JsString(_)
JsString(v) ==
  CASE v.t = "string" -> v.s
    [] v.t = "number" -> DecStr(v.n)
    [] v.t = "array" -> Join([i \in 1..Len(v.a) |-> JsString(v.a[i])], <<",">>)
    [] v.t = "undefined" -> <<"u", "n", "d", "e", "f", "i", "n", "e", "d">>
    [] OTHER -> <<"[", "o", "b", "j", "e", "c", "t", " ", "O", "b", "j", "e", "c", "t", "]">>

HasKey(p, k) == \E i \in 1..Len(p) : p[i].k = k

\* p[k]
Get(p, k) ==
  IF HasKey(p, k) THEN p[CHOOSE i \in 1..Len(p) : p[i].k = k].v ELSE Undefined

\* p[k] = v: an existing property keeps its place, a new one goes last
Set(p, k, v) ==
  IF HasKey(p, k)
  THEN [i \in 1..Len(p) |-> IF p[i].k = k THEN Prop(k, v) ELSE p[i]]
  ELSE Append(p, Prop(k, v))

\* { ...a, ...b }
RECURSIVE Spread(_, _)
Spread(a, b) == IF b = <<>> THEN a ELSE Spread(Set(a, b[1].k, b[1].v), Tail(b))

\* a destructuring whose rest keeps every property
Rest_KeepsAll(p, ks) == p

\* const { k1, k2, ...rest } = p : the rest
RECURSIVE Rest(_, _)
Rest(p, ks) ==
  IF p = <<>> THEN <<>>
  ELSE (IF p[1].k \in ks THEN <<>> ELSE <<p[1]>>) \o Rest(Tail(p), ks)

\* JSON.stringify of an object: properties whose value is undefined are left out
RECURSIVE JsonStringify(_)
JsonStringify(p) ==
  IF p = <<>> THEN <<>>
  ELSE (IF p[1].v.t = "undefined" THEN <<>> ELSE <<p[1]>>) \o JsonStringify(Tail(p))

\* JSON.parse of a stored text: the object with the text's properties, in order
JsonParse(text) == Spread(<<>>, text)

\* the characters of the JSON text of a value
RECURSIVE RenderValue(_)
RenderValue(v) ==
  CASE v.t = "string" -> <<"\"">> \o v.s \o <<"\"">>
    [] v.t = "number" -> DecStr(v.n)
    [] v.t = "array" ->
         <<"[">> \o Join([i \in 1..Len(v.a) |-> RenderValue(v.a[i])], <<",">>) \o <<"]">>
    [] v.t = "object" ->
         <<"{">>
         \o Join([i \in 1..Len(v.p) |->
                    <<"\"">> \o v.p[i].k \o <<"\"", ":">> \o RenderValue(v.p[i].v)],
                 <<",">>)
         \o <<"}">>
    [] OTHER -> <<"n", "u", "l", "l">>

\* the characters of the JSON text of a data column
Render(text) == RenderValue(Obj(text))

(***************************************************************************)
(* Branch names: normalisation and the keyword lists.                      *)
(***************************************************************************)
\* one character of normalizeAr's replacements: the alef variants become
\* alef, teh marbuta becomes heh, alef maksura becomes yeh, a dot goes
NormalizeChar(c) ==
  CASE c \in {"alef_hamza_above", "alef_hamza_below", "alef_madda"} -> <<"alef">>
    [] c = "teh_marbuta" -> <<"heh">>
    [] c = "alef_maksura" -> <<"yeh">>
    [] c = "." -> <<>>
    [] OTHER -> <<c>>

\* normalizeAr(text) for a string; the empty string for anything else
normalizeAr(text) ==
  IF text = <<>> THEN <<>>
  ELSE Trim(Concat([i \in 1..Len(text) |-> NormalizeChar(text[i])]))

(***************************************************************************)
(* The keyword lists of cleanBranchNames: the lists written in the source, *)
(* each passed through [...].map(normalizeAr).                             *)
(***************************************************************************)
\* list.map(normalizeAr), as the set of the keywords
NormalizeAll(list) == {normalizeAr(list[i]) : i \in 1..Len(list)}

idlibKeywords ==
  NormalizeAll(
  << <<"alef", "dal", "lam", "beh">>,
     <<"seen", "reh", "meem", "dal", "alef">>,
     <<"alef", "reh", "yeh", "hah", "alef">>,
     <<"alef", "lam", "qaf", "sad", "waw", "reh">>,
     <<"alef", "lam", "meem", "dal", "noon", "yeh", "heh">>,
     <<"alef", "lam", "ghain", "alef", "beh", "alef", "teh">>,
     <<"alef", "lam", "feh", "alef", "reh", "waw", "qaf">>,
     <<"alef", "lam", "feh", "reh", "ain">>,
     <<"alef", "lam", "dal", "alef", "noon", "heh">>,
     <<"jeem", "seen", "reh", " ", "alef", "lam", "sheen", "ghain", "waw", "reh">>,
     <<"hah", "alef", "reh", "meem">>,
     <<"dal", "lam", "beh">>,
     <<"seen", "reh", "alef", "qaf", "beh">>,
     <<"beh", "alef", "beh", " ", "alef", "lam", "heh", "waw", "yeh">>,
     <<"sad", "reh", "meem", "dal", "alef">>,
     <<"meem", "ain", "reh", "heh", " ", "alef", "lam", "noon", "ain", "meem", "alef", "noon">>,
     <<"kaf", "noon", "sad", "feh", "reh", "heh">>,
     <<"jeem", "beh", "lam", " ", "alef", "lam", "zain", "alef", "waw", "yeh", "heh">>,
     <<"alef", "dal", "alef", "beh">>,
     <<"ain", "zain", "meem", "alef", "reh", "yeh", "noon">>,
     <<"meem", "ain", "reh", "heh", " ", "meem", "sad", "reh", "yeh", "noon">>,
     <<"meem", "ain", "reh", "teh", "meem", "sad", "reh", "yeh", "noon">>,
     <<"alef", "lam", "dal", "alef", "noon", "alef">>,
     <<"alef", "lam", "alef", "waw", "lam">>,
     <<"alef", "lam", "theh", "alef", "noon", "yeh">>,
     <<"alef", "lam", "theh", "alef", "lam", "theh">>,
     <<"alef", "lam", "reh", "alef", "beh", "ain">>,
     <<"alef", "lam", "khah", "alef", "meem", "seen">>,
     <<"alef", "lam", "seen", "alef", "dal", "seen">>,
     <<"alef", "lam", "seen", "alef", "beh", "ain">>,
     <<"alef", "lam", "theh", "alef", "meem", "noon">>,
     <<"alef", "lam", "teh", "alef", "seen", "ain">>,
     <<"alef", "lam", "ain", "alef", "sheen", "reh">>,
     <<"alef", "lam", "meem", "dal", "yeh", "noon", "heh">>,
     <<"alef", "lam", "meem", "dal", "yeh", "noon", "teh_marbuta">>,
     <<"meem", "ain", "reh", "teh_marbuta", " ", "noon", "ain", "meem", "alef", "noon">>,
     <<"alef", "lam", "hah", "seen", "alef", "waw", "yeh">>,
     <<"alef", "lam", "alef", "meem", "alef", "noon", "heh">>,
     <<"alef", "lam", "jeem", "seen", "reh">>,
     <<"alef", "lam", "qaf", "noon", "yeh", "heh">>,
     <<"beh", "seen", "yeh", "dal", "alef">>,
     <<"waw", "teh", "alef", "reh">>,
     <<"hah", "seen", "alef", "waw", "yeh">> >>)

lattakiaKeywords ==
  NormalizeAll(
  << <<"alef", "lam", "lam", "alef", "thal", "qaf", "yeh", "heh">>,
     <<"alef", "lam", "alef", "thal", "qaf", "yeh", "heh">>,
     <<"hah", "seen", "dal", "waw_hamza", "heh">>,
     <<"hah", "yeh", "dal", "reh", "heh">>,
     <<"alef", "lam", "reh", "meem", "lam", " ", "alef", "lam", "sheen", "meem", "alef", "lam", "yeh">>,
     <<"alef", "lam", "qaf", "r", "a", "hah", "heh">>,
     <<"alef", "lam", "qaf", "reh", "dal", "alef", "hah", "heh">>,
     <<"tah", "yeh", "beh", " ", "alef", "lam", "reh", "hah", "meem", "noon">>,
     <<"alef", "lam", "reh", "hah", "meem", "noon">>,
     <<"dal", "waw", "alef", "reh", " ", "alef", "lam", "jeem", "alef", "meem", "ain", "heh">>,
     <<"alef", "lam", "zain", "qaf", "yeh", "heh">>,
     <<"dal", "meem", " ", "sad", "reh", "khah", "heh">>,
     <<"lam", "lam", "alef", "lam", "lam", "alef", "thal", "qaf", "yeh", "heh">>,
     <<"dal", "meem", "seen", "reh", "khah", "waw">>,
     <<"lam", "lam", "alef", "thal", "qaf", "yeh", "heh">>,
     <<"alef", "lam", "zain", "qaf", "yeh", "heh">>,
     <<"alef", "lam", "qaf", "reh", "dal", "alef", "hah", "teh_marbuta">>,
     <<"alef", "lam", "qaf", "reh", "dal", "alef", "hah", "heh">>,
     <<"hah", "yeh", "dal", "reh", "heh">>,
     <<"alef", "lam", "thal", "qaf", "yeh", "teh_marbuta">>,
     <<"dal", "meem", "seen", "reh", "khah", "waw">>,
     <<"lam", "lam", "alef", "thal", "qaf", "yeh", "teh_marbuta">>,
     <<"alef", "lam", "lam", "alef", "zain", "qaf", "yeh", "heh">>,
     <<"alef", "lam", "seen", "alef", "hah", "lam">> >>)

aleppoKeywords ==
  NormalizeAll(
  << <<"hah", "lam", "beh">>,
     <<"alef", "ain", "zain", "alef", "zain">>,
     <<"alef", "lam", "sheen", "ain", "alef", "reh">>,
     <<"khah", "alef", "noon", " ", "alef", "lam", "seen", "beh", "lam">>,
     <<"ain", "feh", "reh", "yeh", "noon">>,
     <<"meem", "noon", "beh", "jeem">>,
     <<"alef", "lam", "jeem", "noon", "waw", "beh", "yeh">>,
     <<"alef", "lam", "beh", "alef", "beh">>,
     <<"jeem", "reh", "alef", "beh", "lam", "seen">> >>)

tartusKeywords ==
  NormalizeAll(
  << <<"tah", "reh", "tah", "waw", "seen">>,
     <<"alef", "lam", "reh", "meem", "alef", "lam">>,
     <<"beh", "alef", "noon", "yeh", "alef", "seen">>,
     <<"sad", "reh", "sad", "waw", "seen">> >>)

raqqaKeywords ==
  NormalizeAll(
  << <<"alef", "lam", "reh", "qaf", "teh_marbuta">>,
     <<"alef", "lam", "reh", "qaf", "heh">>,
     <<"alef", "lam", "tah", "beh", "feh", "heh">>,
     <<"alef", "lam", "tah", "beh", "qaf", "heh">> >>)

homsKeywords ==
  NormalizeAll(
  << <<"hah", "meem", "sad">>,
     <<"teh", "dal", "meem", "reh">>,
     <<"alef", "lam", "reh", "sad", "yeh", "feh">>,
     <<"alef", "lam", "lam", "waw_hamza", "lam", "waw_hamza", "heh">>,
     <<"alef", "lam", "seen", "lam", "alef", "meem">>,
     <<"reh", "alef", "meem", "yeh", " ", "ain", "beh", "dal", " ", "alef", "lam", "kaf", "reh", "yeh", "meem">> >>)

hamaKeywords ==
  NormalizeAll(
  << <<"hah", "meem", "alef", "heh">>,
     <<"hah", "meem", "alef", "teh_marbuta">>,
     <<"meem", "sad", "yeh", "alef", "feh">>,
     <<"alef", "lam", "waw", "zain", "yeh", "reh">>,
     <<"alef", "lam", "alef", "noon", "sheen", "alef", "hamza", "alef", "teh">>,
     <<"alef", "lam", "noon", "sheen", "alef", "yeh_hamza", "alef", "teh">>,
     <<"reh", "noon", "jeem", "waw", "seen">> >>)

daraaKeywords ==
  NormalizeAll(
  << <<"dal", "reh", "ain", "alef">> >>)

deirEzorKeywords ==
  NormalizeAll(
  << <<"dal", "yeh", "reh", " ", "alef", "lam", "zain", "waw", "reh">>,
     <<"dal", "yeh", "reh", "alef", "lam", "zain", "waw", "reh">> >>)

damascusKeywords ==
  NormalizeAll(
  << <<"dal", "meem", "sheen", "qaf">>,
     <<"dal", "meem", "sheen">>,
     <<"dal", "meem", "sheen", "feh">>,
     <<"alef", "lam", "meem", "jeem", "teh", "heh", "dal">>,
     <<"zain", "yeh", "noon", " ", "alef", "lam", "sheen", "alef", "meem">>,
     <<"alef", "lam", "zain", "beh", "dal", "alef", "noon", "yeh">>,
     <<"alef", "lam", "hah", "seen", "yeh", "noon">>,
     <<"hah", "seen", "yeh", "noon">>,
     <<"alef", "lam", "teh", "reh", "kaf", "alef", "waw", "yeh">>,
     <<"alef", "lam", "teh", "kaf", "reh", "waw", "reh", "yeh">>,
     <<"beh", "beh", "yeh", "lam", "alef">>,
     <<"beh", "waw", "alef", "beh", "heh", " ", "alef", "lam", "sheen", "alef", "meem">>,
     <<"alef", "lam", "qaf", "dal", "meem">> >>)

\* the canonical city names
Aleppo == <<"hah", "lam", "beh">>

Tartus == <<"tah", "reh", "tah", "waw", "seen">>

Raqqa == <<"alef", "lam", "reh", "qaf", "teh_marbuta">>

Hama == <<"hah", "meem", "alef", "heh">>

Daraa == <<"dal", "reh", "ain", "alef">>

DeirEzor == <<"dal", "yeh", "reh", " ", "alef", "lam", "zain", "waw", "reh">>

Homs == <<"hah", "meem", "sad">>

Lattakia == <<"alef", "lam", "lam", "alef", "thal", "qaf", "yeh", "teh_marbuta">>

Damascus == <<"dal", "meem", "sheen", "qaf">>

Idlib == <<"alef_hamza_below", "dal", "lam", "beh">>

CanonicalNames ==
  {Aleppo, Tartus, Raqqa, Hama, Daraa, DeirEzor, Homs, Lattakia, Damascus, Idlib}

\* keywords.some(k => branchNormalized.includes(k))
SomeIncluded(keywords, branchNormalized) ==
  \E k \in keywords : Includes(branchNormalized, k)

\* /\d+/.test(s)
HasLatinDigit(s) == \E i \in 1..Len(s) : s[i] \in Range(Digits)

ArabicIndicDigits ==
  {"ar_0", "ar_1", "ar_2", "ar_3", "ar_4", "ar_5", "ar_6", "ar_7", "ar_8", "ar_9"}

\* the character class of Arabic-Indic digits .test(s)
HasArabicDigit(s) == \E i \in 1..Len(s) : s[i] \in ArabicIndicDigits

\* a matching logic that tests the digits before the keyword lists
MatchBranch_DigitsFirst(branchValue) ==
  LET branchNormalized == normalizeAr(branchValue)
  IN IF HasLatinDigit(branchValue) \/ HasArabicDigit(branchValue) THEN Str(Idlib)
     ELSE IF SomeIncluded(aleppoKeywords, branchNormalized) THEN Str(Aleppo)
     ELSE IF SomeIncluded(tartusKeywords, branchNormalized) THEN Str(Tartus)
     ELSE IF SomeIncluded(raqqaKeywords, branchNormalized) THEN Str(Raqqa)
     ELSE IF SomeIncluded(hamaKeywords, branchNormalized) THEN Str(Hama)
     ELSE IF SomeIncluded(daraaKeywords, branchNormalized) THEN Str(Daraa)
     ELSE IF SomeIncluded(deirEzorKeywords, branchNormalized) THEN Str(DeirEzor)
     ELSE IF SomeIncluded(homsKeywords, branchNormalized) THEN Str(Homs)
     ELSE IF SomeIncluded(lattakiaKeywords, branchNormalized) THEN Str(Lattakia)
     ELSE IF SomeIncluded(damascusKeywords, branchNormalized) THEN Str(Damascus)
     ELSE IF SomeIncluded(idlibKeywords, branchNormalized) THEN Str(Idlib)
     ELSE Undefined

\* the matching logic: the new branch name for a branch value (a string), or
\* Undefined (newBranch stays null) when nothing matches
MatchBranch(branchValue) ==
  LET branchNormalized == normalizeAr(branchValue)
  IN IF SomeIncluded(aleppoKeywords, branchNormalized) THEN Str(Aleppo)
     ELSE IF SomeIncluded(tartusKeywords, branchNormalized) THEN Str(Tartus)
     ELSE IF SomeIncluded(raqqaKeywords, branchNormalized) THEN Str(Raqqa)
     ELSE IF SomeIncluded(hamaKeywords, branchNormalized) THEN Str(Hama)
     ELSE IF SomeIncluded(daraaKeywords, branchNormalized) THEN Str(Daraa)
     ELSE IF SomeIncluded(deirEzorKeywords, branchNormalized) THEN Str(DeirEzor)
     ELSE IF SomeIncluded(homsKeywords, branchNormalized) THEN Str(Homs)
     ELSE IF SomeIncluded(lattakiaKeywords, branchNormalized) THEN Str(Lattakia)
     ELSE IF SomeIncluded(damascusKeywords, branchNormalized) THEN Str(Damascus)
     ELSE IF SomeIncluded(idlibKeywords, branchNormalized)
             \/ HasLatinDigit(branchValue)
             \/ HasArabicDigit(branchValue) THEN Str(Idlib)
     ELSE Undefined

(***************************************************************************)
(* JavaScript numbers as the handlers meet them: Num(n) is the integer n,  *)
(* NonInt(n) a finite number strictly between n and n + 1, NaN is NaN.     *)
(***************************************************************************)
NaN == [t |-> "NaN"]

NonInt(n) == [t |-> "noninteger", n |-> n]

IsInteger(v) == v.t = "number"

\* the natural number a string of decimal digits denotes
RECURSIVE DigitsValue(_)
DigitsValue(s) ==
  IF s = <<>> THEN 0
  ELSE 10 * DigitsValue(SubSeq(s, 1, Len(s) - 1))
       + (CHOOSE d \in 0..9 : Dig(d) = s[Len(s)])

\* the longest prefix of s made of decimal digits
RECURSIVE DigitPrefix(_)
DigitPrefix(s) ==
  IF s = <<>> \/ s[1] \notin Range(Digits) THEN <<>>
  ELSE <<s[1]>> \o DigitPrefix(Tail(s))

\* parseInt(v): leading blanks, an optional sign, then the leading digits
parseInt(v) ==
  IF v.t # "string" THEN NaN
  ELSE LET s == Trim(v.s)
           neg == s # <<>> /\ s[1] = "-"
           body == IF s # <<>> /\ s[1] \in {"-", "+"} THEN Tail(s) ELSE s
           ds == DigitPrefix(body)
       IN IF ds = <<>> THEN NaN
          ELSE Num(IF neg THEN 0 - DigitsValue(ds) ELSE DigitsValue(ds))

\* Number(v): a number is itself; a string is read as a whole decimal literal
Number(v) ==
  IF v.t \in {"number", "noninteger", "NaN"} THEN v
  ELSE IF v.t # "string" THEN NaN
  ELSE LET s == Trim(v.s)
           neg == s # <<>> /\ s[1] = "-"
           body == IF s # <<>> /\ s[1] \in {"-", "+"} THEN Tail(s) ELSE s
           ds == DigitPrefix(body)
           rest == SubSeq(body, Len(ds) + 1, Len(body))
           n == IF neg THEN 0 - DigitsValue(ds) ELSE DigitsValue(ds)
       IN IF s = <<>> THEN Num(0)
          ELSE IF ds = <<>> THEN NaN
          ELSE IF rest = <<>> THEN Num(n)
          ELSE IF rest[1] = "." /\ Len(rest) > 1 /\ DigitPrefix(Tail(rest)) = Tail(rest)
               THEN (IF DigitsValue(Tail(rest)) = 0 THEN Num(n)
                     ELSE NonInt(IF neg THEN n - 1 ELSE n))
          ELSE NaN

\* a || b for numbers: NaN and 0 are falsy
OrElse(a, b) == IF a.t = "NaN" \/ (a.t = "number" /\ a.n = 0) THEN b ELSE a

All == Str(<<"a", "l", "l">>)

(***************************************************************************)
(* State.                                                                  *)
(***************************************************************************)
VARIABLES
  IS_MYSQL,   \* the engine selector, fixed at startup
  tables,     \* table name -> the rows [id, receivedAt, data], in rowid order
  settings,   \* the rows [key, value] of the settings table
  now,        \* the clock behind Date.now() and new Date()
  last,       \* the latest request served and its response
  lockLog,    \* history: the setSurveyLock calls made so far, oldest first
  pass,       \* the cleanBranchNames call in progress, if any
  store       \* sqliteDb and mysqlPool, and the calls that open them

vars == <<IS_MYSQL, tables, settings, now, last, lockLog, pass, store>>

TableNames == {"managers", "workers"}

\* new Date(n).toISOString(): the date, "T", the time of day, "Z"
Iso(n) == DecStr(n \div TicksPerDay) \o <<"T">> \o DecStr(n % TicksPerDay) \o <<"Z">>

\* the text a DATETIME column is given: receivedAt.replace('T', ' ').replace('Z', '')
MysqlDatetime(receivedAt) ==
  ReplaceFirst(ReplaceFirst(receivedAt, "T", <<" ">>), "Z", <<>>)

\* a DATETIME read back as a Date and turned into text by toISOString()
DatetimeToIso(col) == ReplaceFirst(col, " ", <<"T">>) \o <<"Z">>

Row(id, receivedAt, data) == [id |-> id, receivedAt |-> receivedAt, data |-> data]

Ids(rows) == {rows[i].id : i \in 1..Len(rows)}

\* SELECT * FROM table WHERE id = ? : the rows found (at most one)
\* the text a VARCHAR of the networked engine is compared by: the collation
\* utf8mb4_unicode_ci of the tables takes no account of letter case nor of
\* blanks at the end
RECURSIVE CollationKey(_)
CollationKey(s) ==
  IF s # <<>> /\ s[Len(s)] = " " THEN CollationKey(SubSeq(s, 1, Len(s) - 1))
  ELSE [i \in 1..Len(s) |-> LowerChar(s[i])]

\* id = ? as the engine evaluates it
SqlIdEquals(id, param) ==
  IF IS_MYSQL THEN CollationKey(id) = CollationKey(param) ELSE id = param

RowsById(rows, id) == SelectSeq(rows, LAMBDA r : SqlIdEquals(r.id, id))

(***************************************************************************)
(* The query builder.                                                      *)
(***************************************************************************)
KeyId == <<"i", "d">>

KeyReceivedAt == <<"r", "e", "c", "e", "i", "v", "e", "d", "A", "t">>

\* the condition "(data LIKE ? OR receivedAt LIKE ?)", with CAST(data AS CHAR)
\* for the networked engine: two placeholders
LikeCondition(isMysql) == [kind |-> "like", cast |-> isMysql, n |-> 2]

\* the condition "receivedAt IN (?,...)": one placeholder per value
ColumnInCondition(values) == [kind |-> "columnIn", n |-> Len(values)]

\* the condition "json_extract(data, '$.<key>') IN (?,...)" (data->>'$.<key>'
\* for the networked engine): the key is written into the path as it is
JsonInCondition(key, values, isMysql) ==
  [kind |-> "jsonIn", unquote |-> isMysql, path |-> <<"$", ".">> \o key,
   n |-> Len(values)]

\* the loop with the test of values.length left out
RECURSIVE FilterConditions_KeepsEmptyLists(_, _)
FilterConditions_KeepsEmptyLists(entries, isMysql) ==
  IF entries = <<>> THEN [conditions |-> <<>>, params |-> <<>>]
  ELSE LET key == entries[1].k
           values == entries[1].v
           rest == FilterConditions_KeepsEmptyLists(Tail(entries), isMysql)
       IN IF values.t = "array"
          THEN [conditions |->
                  <<IF key = KeyReceivedAt THEN ColumnInCondition(values.a)
                    ELSE JsonInCondition(key, values.a, isMysql)>>
                  \o rest.conditions,
                params |-> values.a \o rest.params]
          ELSE rest

\* the loop over Object.entries(filters)
RECURSIVE FilterConditions(_, _)
FilterConditions(entries, isMysql) ==
  IF entries = <<>> THEN [conditions |-> <<>>, params |-> <<>>]
  ELSE LET key == entries[1].k
           values == entries[1].v
           rest == FilterConditions(Tail(entries), isMysql)
       IN IF values.t = "array" /\ Len(values.a) > 0
          THEN [conditions |->
                  <<IF key = KeyReceivedAt THEN ColumnInCondition(values.a)
                    ELSE JsonInCondition(key, values.a, isMysql)>>
                  \o rest.conditions,
                params |-> values.a \o rest.params]
          ELSE rest

\* buildWhereClause(search, filters, isMysql); whereFragment is the sequence of
\* the conditions joined by AND, empty when there is no WHERE
buildWhereClause(search, filters, isMysql) ==
  LET s == IF Truthy(search)
           THEN [conditions |-> <<LikeCondition(isMysql)>>,
                 params |-> <<Str(<<"%">> \o JsString(search) \o <<"%">>),
                              Str(<<"%">> \o JsString(search) \o <<"%">>)>>]
           ELSE [conditions |-> <<>>, params |-> <<>>]
      f == IF filters.t = "object" THEN FilterConditions(filters.p, isMysql)
           ELSE IF filters.t = "array"
           THEN FilterConditions(
                  [i \in 1..Len(filters.a) |-> Prop(DecStr(i - 1), filters.a[i])],
                  isMysql)
           ELSE [conditions |-> <<>>, params |-> <<>>]
  IN [whereFragment |-> s.conditions \o f.conditions,
      params |-> s.params \o f.params]

(***************************************************************************)
(* The engine: evaluation of a statement against the rows of a table.      *)
(***************************************************************************)
SqlNull == [t |-> "null"]

\* text LIKE pattern, for a pattern %...% without further wildcards
Like(text, pattern) ==
  /\ pattern.t = "string"
  /\ Len(pattern.s) >= 2
  /\ pattern.s[1] = "%"
  /\ pattern.s[Len(pattern.s)] = "%"
  /\ Includes(text, SubSeq(pattern.s, 2, Len(pattern.s) - 1))

\* the value at a JSON path in a data column: the path is "$" followed by
\* ".label" steps, each step looks the label up in the object reached so far
RECURSIVE WalkPath(_, _)
WalkPath(v, labels) ==
  IF labels = <<>> THEN v
  ELSE IF v.t = "object" /\ HasKey(v.p, labels[1])
  THEN WalkPath(Get(v.p, labels[1]), Tail(labels))
  ELSE SqlNull

\* the labels of the steps of a path "$.label.label"
PathLabels(path) == Tail(Split(Tail(path), "."))

\* the characters that end an unquoted label of a path of the server engine
LabelBreakers ==
  {" ", "ar_qmark", "-", "+", "%", "\"", "[", "]", "{", "}", ":", ",", "/", "?"}

\* whether the engine accepts the path: no step without a label, and for the
\* server engine every unquoted label an identifier
PathAccepted(path, isMysql) ==
  \A i \in 1..Len(PathLabels(path)) :
    LET label == PathLabels(path)[i]
    IN /\ label # <<>>
       /\ isMysql => /\ label[1] \notin Range(Digits)
                     /\ \A j \in 1..Len(label) : label[j] \notin LabelBreakers

\* whether the engine accepts the WHERE of a statement
WhereAccepted(whereFragment, isMysql) ==
  \A i \in 1..Len(whereFragment) :
    whereFragment[i].kind = "jsonIn" => PathAccepted(whereFragment[i].path, isMysql)

\* json_extract(data, path), and data->>path when unquote: the SQL value
JsonExtract(data, path, unquote) ==
  LET labels == PathLabels(path)
      v == WalkPath(Obj(JsonParse(data)), labels)
  IN CASE v.t = "string" -> v
       [] v.t = "number" -> IF unquote THEN Str(DecStr(v.n)) ELSE v
       [] v.t \in {"array", "object"} -> Str(RenderValue(v))
       [] OTHER -> SqlNull

\* x = y in SQL for a text or integer x and a bound parameter y
SqlEquals(x, y) == x.t \in {"string", "number"} /\ x = y

\* x IN (params)
SqlIn(x, params) == \E i \in 1..Len(params) : SqlEquals(x, params[i])

\* one condition of a WHERE, with the parameters bound to its placeholders
HoldsCondition(row, c, ps) ==
  CASE c.kind = "like" -> Like(Render(row.data), ps[1]) \/ Like(row.receivedAt, ps[2])
    [] c.kind = "columnIn" -> SqlIn(Str(row.receivedAt), ps)
    [] c.kind = "jsonIn" -> SqlIn(JsonExtract(row.data, c.path, c.unquote), ps)

\* the conjunction of the conditions; placeholders take the parameters in order
RECURSIVE HoldsWhere(_, _, _)
HoldsWhere(row, whereFragment, params) ==
  IF whereFragment = <<>> THEN TRUE
  ELSE /\ HoldsCondition(row, whereFragment[1], SubSeq(params, 1, whereFragment[1].n))
       /\ HoldsWhere(row, Tail(whereFragment),
                     SubSeq(params, whereFragment[1].n + 1, Len(params)))

\* character codes, for the comparison of receivedAt texts
Code(c) ==
  IF c \in Range(Digits) THEN 48 + (CHOOSE d \in 0..9 : Dig(d) = c)
  ELSE CASE c = " " -> 32
         [] c = "T" -> 84
         [] c = "Z" -> 90
         [] OTHER -> 128

\* a < b for texts, character by character
RECURSIVE TextLess(_, _)
TextLess(a, b) ==
  IF b = <<>> THEN FALSE
  ELSE IF a = <<>> THEN TRUE
  ELSE IF a[1] = b[1] THEN TextLess(Tail(a), Tail(b))
  ELSE Code(a[1]) < Code(b[1])

\* ORDER BY receivedAt DESC: rows with equal receivedAt keep their scan order
RECURSIVE InsertDesc(_, _)
InsertDesc(sorted, r) ==
  IF sorted = <<>> THEN <<r>>
  ELSE IF TextLess(sorted[1].receivedAt, r.receivedAt) THEN <<r>> \o sorted
  ELSE <<sorted[1]>> \o InsertDesc(Tail(sorted), r)

\* a SELECT without its ORDER BY: the rows in the order they are scanned
OrderByReceivedAtDesc_ScanOrder(rows) == rows

RECURSIVE OrderByReceivedAtDesc(_)
OrderByReceivedAtDesc(rows) ==
  IF rows = <<>> THEN <<>>
  ELSE InsertDesc(OrderByReceivedAtDesc(SubSeq(rows, 1, Len(rows) - 1)), rows[Len(rows)])

\* SELECT ... FROM table <where> : the rows that satisfy the WHERE
SqlWhere(rows, whereFragment, params) ==
  SelectSeq(rows, LAMBDA r : HoldsWhere(r, whereFragment, params))

\* LIMIT ? OFFSET ? of the embedded engine: a negative limit is no limit, a
\* negative offset is no offset
LimitOffset(rows, limit, offset) ==
  LET from == IF offset < 0 THEN 0 ELSE offset
      to == IF limit < 0 \/ from + limit > Len(rows) THEN Len(rows) ELSE from + limit
  IN SubSeq(rows, from + 1, to)

\* whether the engine accepts the values bound to LIMIT ? OFFSET ?
LimitOffsetAccepted(limit, offset, isMysql) ==
  /\ IsInteger(limit)
  /\ IsInteger(offset)
  /\ isMysql => (limit.n >= 0 /\ offset.n >= 0)

(***************************************************************************)
(* dbOperations.  An operation that can throw yields [ok |-> FALSE].       *)
(***************************************************************************)
\* a record built from the columns id and receivedAt alone
RecordOf_WithoutPayload(row) ==
  <<Prop(KeyId, Str(row.id)),
    Prop(KeyReceivedAt,
         Str(IF IS_MYSQL THEN DatetimeToIso(row.receivedAt) ELSE row.receivedAt))>>

\* the record built from a row: { id, receivedAt, ...JSON.parse(row.data) }
RecordOf(row) ==
  Spread(<<Prop(KeyId, Str(row.id)),
           Prop(KeyReceivedAt,
                Str(IF IS_MYSQL THEN DatetimeToIso(row.receivedAt) ELSE row.receivedAt))>>,
         JsonParse(row.data))

\* the parameters bound to the SELECT of getAllManagers / getAllWorkers
getAllQueryParams(limit, offset, search, filters) ==
  buildWhereClause(search, filters, IS_MYSQL).params
  \o (IF limit # All THEN <<Number(limit), Number(offset)>> ELSE <<>>)

\* a SELECT that skips the rows before offset whatever the limit is
getAll_OffsetAlways(table, limit, offset, search, filters) ==
  LET w == buildWhereClause(search, filters, IS_MYSQL)
      ordered == OrderByReceivedAtDesc(SqlWhere(tables[table], w.whereFragment, w.params))
      skip == IF Number(offset).t = "number" THEN Number(offset).n ELSE 0
      page == LimitOffset(ordered, IF limit = All THEN -1 ELSE Number(limit).n, skip)
  IN IF WhereAccepted(w.whereFragment, IS_MYSQL)
        /\ (limit # All => LimitOffsetAccepted(Number(limit), Number(offset), IS_MYSQL))
     THEN [ok |-> TRUE, rows |-> [i \in 1..Len(page) |-> RecordOf(page[i])]]
     ELSE [ok |-> FALSE]

getAll(table, limit, offset, search, filters) ==
  LET w == buildWhereClause(search, filters, IS_MYSQL)
      queryParams == getAllQueryParams(limit, offset, search, filters)
      np == Len(w.params)
      ordered == OrderByReceivedAtDesc(SqlWhere(tables[table], w.whereFragment, w.params))
  IN IF ~WhereAccepted(w.whereFragment, IS_MYSQL) THEN [ok |-> FALSE]
     ELSE IF limit # All
     THEN IF LimitOffsetAccepted(queryParams[np + 1], queryParams[np + 2], IS_MYSQL)
          THEN [ok |-> TRUE,
                rows |-> LET page == LimitOffset(ordered, queryParams[np + 1].n,
                                                 queryParams[np + 2].n)
                         IN [i \in 1..Len(page) |-> RecordOf(page[i])]]
          ELSE [ok |-> FALSE]
     ELSE [ok |-> TRUE, rows |-> [i \in 1..Len(ordered) |-> RecordOf(ordered[i])]]

getAllManagers(limit, offset, search, filters) ==
  getAll("managers", limit, offset, search, filters)

getAllWorkers(limit, offset, search, filters) ==
  getAll("workers", limit, offset, search, filters)

\* a count that leaves the filters out of its WHERE
getCount_WithoutFilters(table, search, filters) ==
  LET w == buildWhereClause(search, Obj(<<>>), IS_MYSQL)
  IN [ok |-> TRUE,
      n |-> Cardinality({i \in 1..Len(tables[table]) :
                           HoldsWhere(tables[table][i], w.whereFragment, w.params)})]

\* SELECT COUNT(*) as count FROM table <where>
getCount(table, search, filters) ==
  LET w == buildWhereClause(search, filters, IS_MYSQL)
  IN IF WhereAccepted(w.whereFragment, IS_MYSQL)
     THEN [ok |-> TRUE,
           n |-> Cardinality({i \in 1..Len(tables[table]) :
                                HoldsWhere(tables[table][i], w.whereFragment, w.params)})]
     ELSE [ok |-> FALSE]

getManagersCount(search, filters) == getCount("managers", search, filters)

getWorkersCount(search, filters) == getCount("workers", search, filters)

\* an add that returns Date.now() as a string whatever id the row is stored
\* under
add_ReturnsTimestamp(table, entry, rnd) ==
  LET id == Get(entry, KeyId)
      receivedAt == Get(entry, KeyReceivedAt)
      data == Rest(entry, {KeyId, KeyReceivedAt})
      newId == IF Truthy(id) THEN JsString(id) ELSE DecStr(now) \o rnd
      finalReceivedAt == IF Truthy(receivedAt) THEN JsString(receivedAt) ELSE Iso(now)
      finalData == JsonStringify(data)
      column == IF IS_MYSQL THEN MysqlDatetime(finalReceivedAt) ELSE finalReceivedAt
  IN IF \E i \in 1..Len(tables[table]) : SqlIdEquals(tables[table][i].id, newId)
     THEN [ok |-> FALSE, rows |-> tables[table]]
     ELSE [ok |-> TRUE, id |-> DecStr(now),
           rows |-> Append(tables[table], Row(newId, column, finalData))]

\* an add into a table without its primary key: the row is always appended
add_WithoutPrimaryKey(table, entry, rnd) ==
  LET id == Get(entry, KeyId)
      receivedAt == Get(entry, KeyReceivedAt)
      data == Rest(entry, {KeyId, KeyReceivedAt})
      newId == IF Truthy(id) THEN JsString(id) ELSE DecStr(now) \o rnd
      finalReceivedAt == IF Truthy(receivedAt) THEN JsString(receivedAt) ELSE Iso(now)
      finalData == JsonStringify(data)
      column == IF IS_MYSQL THEN MysqlDatetime(finalReceivedAt) ELSE finalReceivedAt
  IN [ok |-> TRUE, id |-> newId,
      rows |-> Append(tables[table], Row(newId, column, finalData))]

\* addManager / addWorker: rnd stands for Math.random().toString(36).slice(2).
\* The result carries the rows of the table after the call.
add(table, entry, rnd) ==
  LET id == Get(entry, KeyId)
      receivedAt == Get(entry, KeyReceivedAt)
      data == Rest(entry, {KeyId, KeyReceivedAt})
      newId == IF Truthy(id) THEN JsString(id) ELSE DecStr(now) \o rnd
      finalReceivedAt == IF Truthy(receivedAt) THEN JsString(receivedAt) ELSE Iso(now)
      finalData == JsonStringify(data)
      column == IF IS_MYSQL THEN MysqlDatetime(finalReceivedAt) ELSE finalReceivedAt
  IN IF \E i \in 1..Len(tables[table]) : SqlIdEquals(tables[table][i].id, newId)
     THEN [ok |-> FALSE, rows |-> tables[table]]
     ELSE [ok |-> TRUE, id |-> newId,
           rows |-> Append(tables[table], Row(newId, column, finalData))]

addManager(entry, rnd) == add("managers", entry, rnd)

addWorker(entry, rnd) == add("workers", entry, rnd)

\* a delete that reports success whether or not a row was removed
delete_AlwaysTrue(table, id) ==
  [deleted |-> TRUE,
   rows |-> SelectSeq(tables[table], LAMBDA r : ~SqlIdEquals(r.id, id))]

\* deleteManager / deleteWorker: DELETE FROM table WHERE id = ?
delete(table, id) ==
  LET kept == SelectSeq(tables[table], LAMBDA r : ~SqlIdEquals(r.id, id))
  IN [deleted |-> Len(tables[table]) - Len(kept) > 0, rows |-> kept]

\* a deleteWorker that deletes from the managers
deleteWorker_FromManagers(id) == delete("managers", id)

deleteManager(id) == delete("managers", id)

deleteWorker(id) == delete("workers", id)

\* getManagerById / getWorkerById: the record, or null
getById(table, id) ==
  LET rows == RowsById(tables[table], id)
  IN IF Len(rows) = 0 THEN SqlNull ELSE Obj(RecordOf(rows[1]))

getManagerById(id) == getById("managers", id)

getWorkerById(id) == getById("workers", id)

\* the loop of getSurveyLockStatus over the rows read from settings
RECURSIVE LockLoop(_, _)
LockLoop(rows, acc) ==
  IF rows = <<>> THEN acc
  ELSE LockLoop(Tail(rows),
                [worker |-> IF rows[1].key = "lock_worker" THEN rows[1].value = "1"
                            ELSE acc.worker,
                 manager |-> IF rows[1].key = "lock_manager" THEN rows[1].value = "1"
                             ELSE acc.manager])

getSurveyLockStatus ==
  LockLoop(SelectSeq(settings, LAMBDA r : r.key \in {"lock_worker", "lock_manager"}),
           [worker |-> FALSE, manager |-> FALSE])

\* an INSERT without the ON CONFLICT clause, on a table without the key
Upsert_InsertOnly(rows, key, value) == Append(rows, [key |-> key, value |-> value])

\* INSERT INTO settings ... ON CONFLICT(key) DO UPDATE SET value = excluded.value
Upsert(rows, key, value) ==
  IF \E i \in 1..Len(rows) : rows[i].key = key
  THEN [i \in 1..Len(rows) |->
          IF rows[i].key = key THEN [key |-> key, value |-> value] ELSE rows[i]]
  ELSE Append(rows, [key |-> key, value |-> value])

\* a setSurveyLock whose two keys are taken the other way round
setSurveyLock_OtherKey(type, locked) ==
  LET key == IF type = "worker" THEN "lock_manager" ELSE "lock_worker"
      value == IF locked THEN "1" ELSE "0"
  IN Upsert(settings, key, value)

\* setSurveyLock(type, locked): the settings rows after the call
setSurveyLock(type, locked) ==
  LET key == IF type = "worker" THEN "lock_worker" ELSE "lock_manager"
      value == IF locked THEN "1" ELSE "0"
  IN Upsert(settings, key, value)

(***************************************************************************)
(* cleanBranchNames.                                                       *)
(***************************************************************************)
\* the exact branch-name key
BranchKey == <<"alef", "seen", "meem", " ", "alef", "lam", "feh", "reh", "ain">>

\* the substrings of the fuzzy key search (branch, station)
BranchWord == <<"feh", "reh", "ain">>

StationWord == <<"meem", "hah", "tah", "heh">>

\* Object.keys(data).find(k => normalizeAr(k) includes one of the two words):
\* the index of the first such key, 0 when there is none
FoundKeyIndex(data) ==
  LET hit(i) == \/ Includes(normalizeAr(data[i].k), BranchWord)
                \/ Includes(normalizeAr(data[i].k), StationWord)
  IN IF \E i \in 1..Len(data) : hit(i)
     THEN CHOOSE i \in 1..Len(data) : hit(i) /\ \A j \in 1..(i - 1) : ~hit(j)
     ELSE 0

\* the key under which the branch name of a payload is looked for
LocateBranchKey(data) ==
  IF Get(data, BranchKey).t = "undefined" /\ FoundKeyIndex(data) # 0
  THEN data[FoundKeyIndex(data)].k
  ELSE BranchKey

\* branchValue after "branchValue || ''" and the String() of a non-string
BranchValueOf(data) ==
  LET raw == Get(data, LocateBranchKey(data))
  IN IF ~Truthy(raw) THEN <<>> ELSE JsString(raw)

\* a loop body that writes the matched name back without comparing it with
\* the name stored
cleanRow_AlwaysRewrites(row) ==
  LET data == JsonParse(row.data)
      newBranch == MatchBranch(BranchValueOf(data))
  IN IF newBranch.t = "string"
     THEN [update |-> TRUE,
           data |-> JsonStringify(Set(data, LocateBranchKey(data), newBranch))]
     ELSE [update |-> FALSE, data |-> row.data]

\* a loop body that writes back a payload of the branch name alone
cleanRow_WritesBranchOnly(row) ==
  LET data == JsonParse(row.data)
      branchKey == LocateBranchKey(data)
      branchValue == BranchValueOf(data)
      newBranch == MatchBranch(branchValue)
  IN IF newBranch.t = "string" /\ newBranch.s # branchValue
     THEN [update |-> TRUE, data |-> JsonStringify(<<Prop(branchKey, newBranch)>>)]
     ELSE [update |-> FALSE, data |-> row.data]

\* the body of the loop for one row: whether the row is rewritten, and the
\* JSON text written back
cleanRow(row) ==
  LET data == JsonParse(row.data)
      branchKey == LocateBranchKey(data)
      branchValue == BranchValueOf(data)
      newBranch == MatchBranch(branchValue)
  IN IF newBranch.t = "string" /\ newBranch.s # branchValue
     THEN [update |-> TRUE, data |-> JsonStringify(Set(data, branchKey, newBranch))]
     ELSE [update |-> FALSE, data |-> row.data]

\* a pass over one table that counts every row it visits
cleanTable_CountsEveryRow(rows) ==
  [rows |-> [i \in 1..Len(rows) |->
               [rows[i] EXCEPT !.data = cleanRow(rows[i]).data]],
   count |-> Len(rows)]

\* the pass over one table when no other request runs in between: the rows
\* after the pass and the number of UPDATE statements issued
cleanTable(rows) ==
  LET cleaned == [i \in 1..Len(rows) |-> cleanRow(rows[i])]
  IN [rows |-> [i \in 1..Len(rows) |-> [rows[i] EXCEPT !.data = cleaned[i].data]],
      count |-> Cardinality({i \in 1..Len(rows) : cleaned[i].update})]

\* cleanBranchNames(): workers first, then managers
cleanBranchNames(tabs) ==
  LET w == cleanTable(tabs["workers"])
      m == cleanTable(tabs["managers"])
  IN [tables |-> [managers |-> m.rows, workers |-> w.rows],
      updatedCount |-> w.count + m.count]

(***************************************************************************)
(* The HTTP surface: the auth middleware, the router, the handlers.        *)
(***************************************************************************)
\* the path with its letters in lower case: route matching ignores case
Lower(path) == [i \in 1..Len(path) |-> LowerChar(path[i])]

\* the path without one trailing slash: route matching is not strict
NoTrailingSlash(path) ==
  IF Len(path) > 1 /\ path[Len(path)] = "/" THEN SubSeq(path, 1, Len(path) - 1)
  ELSE path

PathSurveys ==
  <<"/", "a", "p", "i", "/", "s", "u", "r", "v", "e", "y", "s">>

PathUniqueValues ==
  <<"/", "a", "p", "i", "/", "s", "u", "r", "v", "e", "y", "s", "/", "u", "n", "i", "q", "u", "e", "-", "v", "a", "l", "u", "e", "s">>

PathBackup ==
  <<"/", "a", "p", "i", "/", "b", "a", "c", "k", "u", "p">>

PathSurveyLocks ==
  <<"/", "a", "p", "i", "/", "s", "u", "r", "v", "e", "y", "-", "l", "o", "c", "k", "s">>

PathSurveyPrefix ==
  <<"/", "a", "p", "i", "/", "s", "u", "r", "v", "e", "y", "/">>

PathSaveSurvey ==
  <<"/", "a", "p", "i", "/", "s", "a", "v", "e", "-", "s", "u", "r", "v", "e", "y">>

PathLogin ==
  <<"/", "a", "p", "i", "/", "l", "o", "g", "i", "n">>

PathLogout ==
  <<"/", "a", "p", "i", "/", "l", "o", "g", "o", "u", "t">>

PathRoot ==
  <<"/">>

PathIndex ==
  <<"/", "i", "n", "d", "e", "x", ".", "h", "t", "m", "l">>

PathDashboard ==
  <<"/", "d", "a", "s", "h", "b", "o", "a", "r", "d", ".", "h", "t", "m", "l">>

SESSION_SECRET ==
  <<"d", "e", "f", "a", "u", "l", "t", "_", "s", "e", "c", "r", "e", "t", "_", "k", "e", "y", "_", "c", "h", "a", "n", "g", "e", "_", "m", "e">>

AdminUser ==
  <<"a", "d", "m", "i", "n">>

AdminPassword ==
  <<"A", "d", "m", "i", "n", "@", "2", "0", "0", "0">>

Manager ==
  <<"m", "a", "n", "a", "g", "e", "r">>

Worker ==
  <<"w", "o", "r", "k", "e", "r">>

PROTECTED_PAGES == {PathIndex, PathDashboard}

\* authMiddleware: "next", "redirect" (to the login page) or "401"
authMiddleware(method, path, cookie) ==
  LET cleanPath == IF path = PathRoot THEN PathIndex ELSE path
      isProtectedApi ==
        \/ StartsWith(path, PathSurveys)
        \/ StartsWith(path, PathBackup)
        \/ (StartsWith(path, PathSurveyLocks) /\ method = "POST")
        \/ (StartsWith(path, PathSurveyPrefix) /\ method = "DELETE")
  IN IF cleanPath \in PROTECTED_PAGES
     THEN (IF cookie = Str(SESSION_SECRET) THEN "next" ELSE "redirect")
     ELSE IF isProtectedApi
     THEN (IF cookie = Str(SESSION_SECRET) THEN "next" ELSE "401")
     ELSE "next"

\* the router of the application: the handler whose route matches the request.
\* Paths are matched without regard to letter case or to one trailing slash;
\* the route parameters are taken from the path as it was sent.
Route(method, path) ==
  LET p == NoTrailingSlash(Lower(path))
      segs == Split(NoTrailingSlash(path), "/")
  IN CASE method = "GET" /\ p = PathSurveys -> "surveys"
       [] method = "GET" /\ p = PathUniqueValues -> "uniqueValues"
       [] method = "POST" /\ p = PathSaveSurvey -> "saveSurvey"
       [] method = "DELETE" /\ Len(segs) = 5 /\ StartsWith(Lower(path), PathSurveyPrefix)
          /\ segs[4] # <<>> /\ segs[5] # <<>> -> "deleteSurvey"
       [] method = "GET" /\ p = PathSurveyLocks -> "getSurveyLocks"
       [] method = "POST" /\ p = PathSurveyLocks -> "postSurveyLocks"
       [] method = "GET" /\ p = PathBackup -> "backup"
       [] method = "POST" /\ p = PathLogin -> "login"
       [] method = "GET" /\ p = PathLogout -> "logout"
       [] OTHER -> "notFound"

\* what becomes of a request: the handler that runs, or the middleware's refusal
Dispatch(method, path, cookie) ==
  IF authMiddleware(method, path, cookie) = "next" THEN Route(method, path)
  ELSE authMiddleware(method, path, cookie)

\* Math.ceil(a / b) for integers, b # 0
Ceil(a, b) == IF b > 0 THEN 0 - ((0 - a) \div b) ELSE 0 - (a \div (0 - b))

Max(a, b) == IF a >= b THEN a ELSE b

\* a handler that takes the offset to be page * limit
surveysPaging_OffsetFromPage(query) ==
  LET page == OrElse(parseInt(query.page), Num(1))
      limitQuery == query.limit
      limit == IF limitQuery = All THEN All ELSE OrElse(parseInt(limitQuery), Num(50))
      offset == IF limit = All THEN Num(0) ELSE Num(page.n * limit.n)
  IN [page |-> page, limit |-> limit, offset |-> offset]

\* the page, limit and offset GET /api/surveys derives from the query string
surveysPaging(query) ==
  LET page == OrElse(parseInt(query.page), Num(1))
      limitQuery == query.limit
      limit == IF limitQuery = All THEN All ELSE OrElse(parseInt(limitQuery), Num(50))
      offset == IF limit = All THEN Num(0) ELSE Num((page.n - 1) * limit.n)
  IN [page |-> page, limit |-> limit, offset |-> offset]

\* a handler that computes the page counts by division for limit=all too
surveysHandler_AlwaysDivides(query) ==
  LET page == surveysPaging(query).page
      limit == surveysPaging(query).limit
      offset == surveysPaging(query).offset
      search == IF Truthy(query.search) THEN query.search ELSE Str(<<>>)
      filters == IF query.filters.t = "undefined" THEN Obj(<<>>) ELSE query.filters
      managers == getAllManagers(limit, offset, search, filters)
      workers == getAllWorkers(limit, offset, search, filters)
      managersCount == getManagersCount(search, filters)
      workersCount == getWorkersCount(search, filters)
      totalManagers == managersCount.n
      totalWorkers == workersCount.n
      perPage == IF limit = All THEN 50 ELSE limit.n
  IN IF managers.ok /\ workers.ok /\ managersCount.ok /\ workersCount.ok
     THEN [status |-> 200,
           managers |-> managers.rows,
           workers |-> workers.rows,
           pagination |->
             [page |-> page.n,
              limit |-> IF limit = All THEN Max(totalManagers, totalWorkers) ELSE limit.n,
              totalManagers |-> totalManagers,
              totalWorkers |-> totalWorkers,
              totalPagesManagers |-> Ceil(totalManagers, perPage),
              totalPagesWorkers |-> Ceil(totalWorkers, perPage)]]
     ELSE [status |-> 500]

\* the handler of GET /api/surveys: the response
surveysHandler(query) ==
  LET page == surveysPaging(query).page
      limit == surveysPaging(query).limit
      offset == surveysPaging(query).offset
      search == IF Truthy(query.search) THEN query.search ELSE Str(<<>>)
      filters == IF query.filters.t = "undefined" THEN Obj(<<>>) ELSE query.filters
      managers == getAllManagers(limit, offset, search, filters)
      workers == getAllWorkers(limit, offset, search, filters)
      managersCount == getManagersCount(search, filters)
      workersCount == getWorkersCount(search, filters)
      totalManagers == managersCount.n
      totalWorkers == workersCount.n
  IN IF managers.ok /\ workers.ok /\ managersCount.ok /\ workersCount.ok
     THEN [status |-> 200,
           managers |-> managers.rows,
           workers |-> workers.rows,
           pagination |->
             [page |-> page.n,
              limit |-> IF limit = All THEN Max(totalManagers, totalWorkers) ELSE limit.n,
              totalManagers |-> totalManagers,
              totalWorkers |-> totalWorkers,
              totalPagesManagers |-> IF limit = All THEN 1 ELSE Ceil(totalManagers, limit.n),
              totalPagesWorkers |-> IF limit = All THEN 1 ELSE Ceil(totalWorkers, limit.n)]]
     ELSE [status |-> 500]

(***************************************************************************)
(* Inputs of the requests.                                                 *)
(***************************************************************************)
\* field names and answers of the survey forms
FairKey ==
  <<"alef", "lam", "reh", "qaf", "alef", "beh", "teh_marbuta", " ",
    "ain", "alef", "dal", "lam", "teh_marbuta", "ar_qmark">>

Yes == <<"noon", "ain", "meem">>

JisrAlShughur ==
  <<"jeem", "seen", "reh", " ", "alef", "lam", "sheen", "ghain", "waw", "reh">>

StationKey ==
  <<"alef", "seen", "meem", " ", "alef", "lam", "meem", "hah", "tah", "teh_marbuta">>

\* a submission of the worker form
ScenarioData == Obj(<<Prop(FairKey, Str(Yes)), Prop(BranchKey, Str(JisrAlShughur))>>)

\* a submission whose data names the fields id and receivedAt itself
OwnIdData ==
  Obj(<<Prop(KeyId, Str(<<"x">>)), Prop(BranchKey, Str(Aleppo)),
        Prop(KeyReceivedAt, Str(<<"y">>))>>)

Other == <<"o", "t", "h", "e", "r">>

WrongCookie == Str(<<"w", "r", "o", "n", "g">>)

\* a path as the client may spell it: the route's own spelling, or the same
\* with the letters of "api" in upper case
Spellings(path) ==
  {path, [i \in 1..Len(path) |-> IF i \in 2..4 THEN UpperCase[
                                   CHOOSE j \in 1..26 : LowerCase[j] = path[i]]
                                 ELSE path[i]]}

TableOf(type) == IF type = Str(Manager) THEN "managers" ELSE "workers"

(***************************************************************************)
(* Initial state: empty tables, no setting, no request served yet.         *)
(***************************************************************************)
NoRequest == [op |-> "none", status |-> 0]

\* no cleanBranchNames call is in progress
NoPass == [pc |-> "idle"]

\* the module once loaded: let sqliteDb = null; let mysqlPool = null (0
\* stands for null, n > 0 for the n-th handle created), then getSQLite() when
\* the embedded engine is selected; no call of a storage operation made yet
\* calls[c] is the position of caller c in its call of a storage operation
\* and the handles its calls were given so far; created counts the handles;
\* schema tells whether the CREATE TABLE statements of the three tables have
\* been completed (initSQLite runs them before it returns)
LoadedStore(isMysql) ==
  [sqliteDb |-> IF isMysql THEN 0 ELSE 1, mysqlPool |-> 0,
   created |-> IF isMysql THEN 0 ELSE 1,
   schema |-> ~isMysql,
   calls |-> [c \in 1..MaxCallers |-> [pc |-> "idle", got |-> {}, done |-> 0]]]

Init ==
  /\ IS_MYSQL \in BOOLEAN
  /\ tables = [managers |-> <<>>, workers |-> <<>>]
  /\ settings = <<>>
  /\ now = 0
  /\ last = NoRequest
  /\ lockLog = <<>>
  /\ pass = NoPass
  /\ store = LoadedStore(IS_MYSQL)

\* the clock advances
Tick ==
  /\ now < MaxNow
  /\ now' = now + 1
  /\ UNCHANGED <<IS_MYSQL, tables, settings, last, lockLog, pass, store>>

\* the own enumerable properties { ...v } copies: those of an object, the
\* characters of a string and the elements of an array under their indices,
\* none for any other value
OwnProps(v) ==
  CASE v.t = "object" -> v.p
    [] v.t = "string" -> [i \in 1..Len(v.s) |-> Prop(DecStr(i - 1), Str(<<v.s[i]>>))]
    [] v.t = "array" -> [i \in 1..Len(v.a) |-> Prop(DecStr(i - 1), v.a[i])]
    [] OTHER -> <<>>

\* a handler that stores a submission of any other type as a worker's
SaveSurvey_AcceptsAnyType(type, data) ==
  LET entry == Set(Set(Spread(<<>>, OwnProps(data)), KeyId, Str(DecStr(now))),
                   KeyReceivedAt, Str(Iso(now)))
      table == TableOf(type)
      r == IF type = Str(Manager) THEN addManager(entry, <<>>)
           ELSE addWorker(entry, <<>>)
      head == [op |-> "saveSurvey", type |-> type, data |-> data]
  IN /\ Dispatch("POST", PathSaveSurvey, Undefined) = "saveSurvey"
     /\ IF ~Truthy(type) \/ ~Truthy(data)
        THEN /\ last' = head @@ [status |-> 400]
             /\ UNCHANGED tables
        ELSE /\ Len(tables[table]) < MaxRows
             /\ IF r.ok
                THEN /\ tables' = [tables EXCEPT ![table] = r.rows]
                     /\ last' = head @@ [status |-> 200, id |-> r.id]
                ELSE /\ UNCHANGED tables
                     /\ last' = head @@ [status |-> 500]
     /\ UNCHANGED <<IS_MYSQL, settings, now, lockLog, pass, store>>

\* a handler that refuses the submission of a kind whose lock flag is set
SaveSurvey_RefusesWhenLocked(type, data) ==
  LET entry == Set(Set(Spread(<<>>, OwnProps(data)), KeyId, Str(DecStr(now))),
                   KeyReceivedAt, Str(Iso(now)))
      table == TableOf(type)
      r == IF type = Str(Manager) THEN addManager(entry, <<>>)
           ELSE addWorker(entry, <<>>)
      locks == getSurveyLockStatus
      locked == IF type = Str(Manager) THEN locks.manager ELSE locks.worker
      head == [op |-> "saveSurvey", type |-> type, data |-> data]
  IN /\ Dispatch("POST", PathSaveSurvey, Undefined) = "saveSurvey"
     /\ IF ~Truthy(type) \/ ~Truthy(data)
        THEN /\ last' = head @@ [status |-> 400]
             /\ UNCHANGED tables
        ELSE IF type \notin {Str(Manager), Str(Worker)}
        THEN /\ last' = head @@ [status |-> 400]
             /\ UNCHANGED tables
        ELSE /\ Len(tables[table]) < MaxRows
             /\ IF locked
                THEN /\ UNCHANGED tables
                     /\ last' = head @@ [status |-> 403]
                ELSE IF r.ok
                THEN /\ tables' = [tables EXCEPT ![table] = r.rows]
                     /\ last' = head @@ [status |-> 200, id |-> r.id]
                ELSE /\ UNCHANGED tables
                     /\ last' = head @@ [status |-> 500]
     /\ UNCHANGED <<IS_MYSQL, settings, now, lockLog, pass, store>>

\* POST /api/save-survey with body { type, data }
SaveSurvey(type, data) ==
  LET entry == Set(Set(Spread(<<>>, OwnProps(data)), KeyId, Str(DecStr(now))),
                   KeyReceivedAt, Str(Iso(now)))
      table == TableOf(type)
      r == IF type = Str(Manager) THEN addManager(entry, <<>>)
           ELSE addWorker(entry, <<>>)
      head == [op |-> "saveSurvey", type |-> type, data |-> data]
  IN /\ Dispatch("POST", PathSaveSurvey, Undefined) = "saveSurvey"
     /\ IF ~Truthy(type) \/ ~Truthy(data)
        THEN /\ last' = head @@ [status |-> 400]
             /\ UNCHANGED tables
        ELSE IF type \notin {Str(Manager), Str(Worker)}
        THEN /\ last' = head @@ [status |-> 400]
             /\ UNCHANGED tables
        ELSE /\ Len(tables[table]) < MaxRows
             /\ IF r.ok
                THEN /\ tables' = [tables EXCEPT ![table] = r.rows]
                     /\ last' = head @@ [status |-> 200, id |-> r.id]
                ELSE /\ UNCHANGED tables
                     /\ last' = head @@ [status |-> 500]
     /\ UNCHANGED <<IS_MYSQL, settings, now, lockLog, pass, store>>

\* DELETE /api/survey/:type/:id.  The response is remembered with "again":
\* whether the request served just before was a successful delete of the same
\* type and id.
DeleteSurvey(prefix, type, id, cookie) ==
  LET path == prefix \o type \o <<"/">> \o id
      d == Dispatch("DELETE", path, cookie)
      r == IF type = Manager THEN deleteManager(id) ELSE deleteWorker(id)
      again == /\ last.op = "deleteSurvey"
               /\ last.status = 200
               /\ last.type = type
               /\ last.id = id
      head == [op |-> "deleteSurvey", route |-> Route("DELETE", path), cookie |-> cookie,
               type |-> type, id |-> id, again |-> again]
  IN /\ IF d = "deleteSurvey"
        THEN IF type \notin {Manager, Worker}
             THEN /\ last' = head @@ [status |-> 400]
                  /\ UNCHANGED tables
             ELSE /\ tables' = [tables EXCEPT ![TableOf(Str(type))] = r.rows]
                  /\ last' = head @@ [status |-> IF r.deleted THEN 200 ELSE 404]
        ELSE /\ last' = head @@ [status |-> IF d = "401" THEN 401 ELSE 404]
             /\ UNCHANGED tables
     /\ UNCHANGED <<IS_MYSQL, settings, now, lockLog, pass, store>>

\* GET /api/surveys
GetSurveys(path, cookie, query) ==
  LET d == Dispatch("GET", path, cookie)
      head == [op |-> "surveys", route |-> Route("GET", path), cookie |-> cookie,
               query |-> query]
  IN /\ last' = IF d = "surveys" THEN head @@ surveysHandler(query)
                ELSE head @@ [status |-> IF d = "401" THEN 401 ELSE 404]
     /\ UNCHANGED <<IS_MYSQL, tables, settings, now, lockLog, pass, store>>

\* a login that issues a cookie value of its own instant
Login_FreshCookie(username, password) ==
  /\ Dispatch("POST", PathLogin, Undefined) = "login"
  /\ last' = IF username = Str(AdminUser) /\ password = Str(AdminPassword)
             THEN [op |-> "login", status |-> 200,
                   setCookie |-> Str(DecStr(now))]
             ELSE [op |-> "login", status |-> 401]
  /\ UNCHANGED <<IS_MYSQL, tables, settings, now, lockLog, pass, store>>

\* POST /api/login with body { username, password }
Login(username, password) ==
  /\ Dispatch("POST", PathLogin, Undefined) = "login"
  /\ last' = IF username = Str(AdminUser) /\ password = Str(AdminPassword)
             THEN [op |-> "login", status |-> 200,
                   setCookie |-> Str(SESSION_SECRET)]
             ELSE [op |-> "login", status |-> 401]
  /\ UNCHANGED <<IS_MYSQL, tables, settings, now, lockLog, pass, store>>

\* GET /api/logout: the cookie is cleared at the client, the client is redirected
Logout ==
  /\ Dispatch("GET", PathLogout, Undefined) = "logout"
  /\ last' = [op |-> "logout", status |-> 302, setCookie |-> Undefined]
  /\ UNCHANGED <<IS_MYSQL, tables, settings, now, lockLog, pass, store>>

\* GET /api/backup: the database file of the embedded engine.  The response
\* is remembered with "afterLogout": whether the request served just before
\* was a logout.
GetBackup(path, cookie) ==
  LET d == Dispatch("GET", path, cookie)
      head == [op |-> "backup", route |-> Route("GET", path), cookie |-> cookie,
               afterLogout |-> last.op = "logout"]
  IN /\ last' = IF d = "backup"
                THEN (IF IS_MYSQL THEN head @@ [status |-> 400]
                      ELSE head @@ [status |-> 200, file |-> [tables |-> tables,
                                                               settings |-> settings]])
                ELSE head @@ [status |-> IF d = "401" THEN 401 ELSE 404]
     /\ UNCHANGED <<IS_MYSQL, tables, settings, now, lockLog, pass, store>>

\* GET /api/survey-locks
GetSurveyLocks ==
  /\ Dispatch("GET", PathSurveyLocks, Undefined) = "getSurveyLocks"
  /\ last' = [op |-> "getSurveyLocks", status |-> 200,
              locks |-> getSurveyLockStatus]
  /\ UNCHANGED <<IS_MYSQL, tables, settings, now, lockLog, pass, store>>

\* POST /api/survey-locks with body { type, locked }; Boolean(locked) is lockedBool
PostSurveyLocks(path, cookie, type, locked) ==
  LET d == Dispatch("POST", path, cookie)
      lockedBool == Truthy(locked)
      kind == IF type = Str(Worker) THEN "worker" ELSE "manager"
      head == [op |-> "postSurveyLocks", route |-> Route("POST", path),
               cookie |-> cookie, type |-> type, locked |-> locked]
  IN /\ IF d = "postSurveyLocks"
        THEN IF type \notin {Str(Worker), Str(Manager)}
             THEN /\ last' = head @@ [status |-> 400]
                  /\ UNCHANGED <<settings, lockLog>>
             ELSE /\ Len(lockLog) < MaxLockWrites
                  /\ settings' = setSurveyLock(kind, lockedBool)
                  /\ lockLog' = Append(lockLog, [type |-> kind, locked |-> lockedBool])
                  /\ last' = head @@ [status |-> 200,
                                      locks |-> LockLoop(settings',
                                                         [worker |-> FALSE, manager |-> FALSE])]
        ELSE /\ last' = head @@ [status |-> IF d = "401" THEN 401 ELSE 404]
             /\ UNCHANGED <<settings, lockLog>>
     /\ UNCHANGED <<IS_MYSQL, tables, now, pass, store>>

\* history: the number of rows whose payload differs between two states of
\* the tables
RowsChanged(before, after) ==
  Cardinality({x \in TableNames \X (1..MaxRows) :
                 /\ x[2] <= Len(before[x[1]])
                 /\ x[2] <= Len(after[x[1]])
                 /\ before[x[1]][x[2]].data # after[x[1]][x[2]].data})

\* a maintenance run of cleanBranchNames that no request interleaves with;
\* the response is remembered with the tables the run read
CleanBranchNames ==
  LET r == cleanBranchNames(tables)
  IN /\ tables' = r.tables
     /\ last' = [op |-> "cleanBranchNames", status |-> 200,
                 updatedCount |-> r.updatedCount,
                 previousCount |-> IF last.op = "cleanBranchNames"
                                   THEN last.updatedCount ELSE -1,
                 changed |-> RowsChanged(tables, r.tables),
                 disturbed |-> FALSE,
                 read |-> tables]
     /\ UNCHANGED <<IS_MYSQL, settings, now, lockLog, pass, store>>

(***************************************************************************)
(* The application behind its HTTP surface.                                *)
(***************************************************************************)
QueryInputs ==
  {[page |-> Undefined, limit |-> Undefined, search |-> Undefined, filters |-> Undefined],
   [page |-> Undefined, limit |-> All, search |-> Undefined, filters |-> Undefined],
   [page |-> Str(<<"2">>), limit |-> Str(<<"1">>), search |-> Undefined,
    filters |-> Undefined]}

IdInputs == {DecStr(n) : n \in 0..MaxNow}

\* the bodies sent to POST /api/save-survey
SaveInputs ==
  {[type |-> Str(Manager), data |-> OwnIdData],
   [type |-> Str(Worker), data |-> ScenarioData],
   [type |-> Str(Worker), data |-> OwnIdData],
   [type |-> Str(Worker), data |-> Str(<<"x">>)],
   [type |-> Undefined, data |-> ScenarioData],
   [type |-> Str(Manager), data |-> Undefined],
   [type |-> Str(Other), data |-> ScenarioData]}

\* a protected request as sent: by the signed-in client, by a client without
\* the cookie or with a wrong one, and with the path spelled in upper case
Senders(path) ==
  {[path |-> path, cookie |-> Str(SESSION_SECRET)],
   [path |-> path, cookie |-> Undefined],
   [path |-> path, cookie |-> WrongCookie]}
  \cup {[path |-> s, cookie |-> Undefined] : s \in Spellings(path)}

\* the requests of clients that are not signed in
Strangers(path) == {s \in Senders(path) : s.cookie # Str(SESSION_SECRET)}

DeleteInputs ==
  {[path |-> PathSurveyPrefix, cookie |-> Str(SESSION_SECRET), type |-> type, id |-> id] :
     type \in {Manager, Worker}, id \in IdInputs}
  \cup {[path |-> PathSurveyPrefix, cookie |-> Str(SESSION_SECRET), type |-> Other,
         id |-> DecStr(0)]}
  \cup {[path |-> s.path, cookie |-> s.cookie, type |-> Manager, id |-> DecStr(0)] :
          s \in Strangers(PathSurveyPrefix)}

SurveysInputs ==
  {[path |-> PathSurveys, cookie |-> Str(SESSION_SECRET), query |-> q] : q \in QueryInputs}
  \cup {[path |-> s.path, cookie |-> s.cookie,
         query |-> [page |-> Undefined, limit |-> All, search |-> Undefined,
                    filters |-> Undefined]] : s \in Strangers(PathSurveys)}

Requests ==
  \/ \E b \in SaveInputs : SaveSurvey(b.type, b.data)
  \/ \E r \in DeleteInputs : DeleteSurvey(r.path, r.type, r.id, r.cookie)
  \/ \E r \in SurveysInputs : GetSurveys(r.path, r.cookie, r.query)
  \/ \E s \in Senders(PathBackup) : GetBackup(s.path, s.cookie)
  \/ \E username \in {Str(AdminUser), Str(Other)} : Login(username, Str(AdminPassword))
  \/ Logout

Next == Tick \/ Requests

Spec == Init /\ [][Next]_vars

(***************************************************************************)
(* Properties of the application behind its HTTP surface (Spec).           *)
(***************************************************************************)
\* the entries handed to addManager / addWorker: with an id and a receivedAt,
\* as the handler builds them, and with neither
EntryInputs ==
  {<<Prop(FairKey, Str(Yes)), Prop(KeyId, Str(<<"x">>)), Prop(KeyReceivedAt, Str(Iso(0)))>>,
   <<Prop(FairKey, Str(Yes)), Prop(BranchKey, Str(JisrAlShughur))>>}

\* the record read back by id from the rows an add left behind
ReadBack(rows, id) == RecordOf(RowsById(rows, id)[1])

\* the fields of data found unchanged in the record, the fields named in
\* except left aside
Reproduces(record, data, except) ==
  \A i \in 1..Len(data) :
    data[i].k \notin except => Get(record, data[i].k) = data[i].v

\* every entry passed to addManager / addWorker is read back with the fields
\* listed in except left aside
AddReproduces(except) ==
  \A table \in TableNames : \A entry \in EntryInputs :
    LET r == add(table, entry, <<"r">>)
    IN r.ok =>
         /\ Reproduces(ReadBack(r.rows, r.id), entry, except)
         /\ Truthy(Get(ReadBack(r.rows, r.id), KeyId))
         /\ Truthy(Get(ReadBack(r.rows, r.id), KeyReceivedAt))

\* every accepted POST /api/save-survey is read back with the fields listed
\* in except left aside
SaveReproduces(except) ==
  (last.op = "saveSurvey" /\ last.status = 200) =>
    LET record == getById(TableOf(last.type), last.id)
    IN /\ record.t = "object"
       /\ Reproduces(record.p, OwnProps(last.data), except)
       /\ Get(record.p, KeyId) = Str(last.id)
       /\ Truthy(Get(record.p, KeyReceivedAt))

\* C1 (as stated): after an accepted POST /api/save-survey {type, data}, and
\* after addManager / addWorker of an entry, the record read back by id
\* reproduces every field of data unchanged, together with an id and a
\* receivedAt.
C1_EveryFieldReproduced == SaveReproduces({}) /\ AddReproduces({})

\* C1 (amended): after an accepted POST /api/save-survey {type, data}, and
\* after addManager / addWorker of an entry, the record read back by id
\* reproduces every field of data other than id and receivedAt unchanged,
\* together with an id (the generated one after a POST) and a receivedAt.
C1_PayloadFieldsReproduced ==
  SaveReproduces({KeyId, KeyReceivedAt}) /\ AddReproduces({KeyId, KeyReceivedAt})

\* a submission naming id and receivedAt itself was accepted and is stored
C1_Witness ==
  /\ last.op = "saveSurvey"
  /\ last.status = 200
  /\ last.data = OwnIdData
  /\ getById(TableOf(last.type), last.id).t = "object"

\* C2: deleting an existing record answers success and removes the row;
\* deleting the same id of the same type again right after answers 404 (the
\* operation returns false), raises no error and leaves the store unchanged.
C2_DeleteTwice ==
  [][(/\ last'.op = "deleteSurvey"
      /\ last'.route = "deleteSurvey"
      /\ last'.cookie = Str(SESSION_SECRET)
      /\ last'.type \in {Manager, Worker}
      /\ (last' # last \/ tables' # tables))
     => LET table == TableOf(Str(last'.type))
        IN /\ last'.id \in Ids(tables[table])
                => (last'.status = 200 /\ last'.id \notin Ids(tables'[table]))
           /\ last'.again => (last'.status = 404 /\ tables' = tables)
           /\ \A t \in TableNames : \A i \in 1..Len(tables'[t]) :
                 \E j \in 1..Len(tables[t]) : tables'[t][i] = tables[t][j]]_vars

\* the second of two deletes of the same record has been answered
C2_Witness ==
  /\ last.op = "deleteSurvey"
  /\ last.again
  /\ last.status = 404

\* C7 (as stated): a request routed to GET /api/surveys, GET /api/backup,
\* POST /api/survey-locks or DELETE /api/survey/:type/:id whose auth cookie
\* is missing or differs from the session secret is answered 401 and its
\* handler does not run.
C7_UnauthorizedRefused ==
  (/\ last.op \in {"surveys", "backup", "postSurveyLocks", "deleteSurvey"}
   /\ last.route \in {"surveys", "backup", "postSurveyLocks", "deleteSurvey"}
   /\ last.cookie # Str(SESSION_SECRET))
  => last.status = 401

\* C8: GET /api/surveys with limit=all answers totalPagesManagers = 1 and
\* totalPagesWorkers = 1 whatever the number of records, zero included.
C8_AllIsOnePage ==
  /\ (last.op = "surveys" /\ last.route = "surveys" /\ last.query.limit = All
        /\ last.cookie = Str(SESSION_SECRET))
     => /\ last.status = 200
        /\ last.pagination.totalPagesManagers = 1
        /\ last.pagination.totalPagesWorkers = 1
  /\ \A page \in {Undefined, Str(<<"2">>)} :
       LET r == surveysHandler([page |-> page, limit |-> All,
                                search |-> Undefined, filters |-> Undefined])
       IN /\ r.status = 200
          /\ r.pagination.totalPagesManagers = 1
          /\ r.pagination.totalPagesWorkers = 1

\* limit=all was answered with no manager and some worker stored
C8_Witness ==
  /\ last.op = "surveys"
  /\ last.status = 200
  /\ last.query.limit = All
  /\ last.pagination.totalManagers = 0
  /\ last.pagination.totalWorkers > 0

(***************************************************************************)
(* The survey locks.                                                       *)
(***************************************************************************)
\* the bodies sent to POST /api/survey-locks, and who sends them
LockInputs ==
  {[path |-> PathSurveyLocks, cookie |-> Str(SESSION_SECRET), type |-> Str(type),
    locked |-> Bool(locked)] : type \in {Worker, Manager}, locked \in BOOLEAN}
  \cup {[path |-> PathSurveyLocks, cookie |-> Str(SESSION_SECRET), type |-> Str(Other),
         locked |-> Bool(TRUE)],
        [path |-> PathSurveyLocks, cookie |-> Str(SESSION_SECRET), type |-> Str(Worker),
         locked |-> Undefined],
        [path |-> PathSurveyLocks, cookie |-> Str(SESSION_SECRET), type |-> Str(Manager),
         locked |-> Str(<<"0">>)]}
  \cup {[path |-> s.path, cookie |-> s.cookie, type |-> Str(Worker), locked |-> Bool(TRUE)] :
          s \in Strangers(PathSurveyLocks)}

NextLocks ==
  \/ GetSurveyLocks
  \/ \E r \in LockInputs : PostSurveyLocks(r.path, r.cookie, r.type, r.locked)

SpecLocks == Init /\ [][NextLocks]_vars

\* the boolean of the most recent setSurveyLock for a kind, FALSE if none
LastWrite(kind) ==
  LET writes == {i \in 1..Len(lockLog) : lockLog[i].type = kind}
  IN IF writes = {} THEN FALSE
     ELSE lockLog[CHOOSE i \in writes : \A j \in writes : j <= i].locked

\* C4: before any setSurveyLock call getSurveyLockStatus returns
\* {worker: false, manager: false}; after setSurveyLock('worker', true) as the
\* only write it returns {worker: true, manager: false}.
C4_LockDefaults ==
  /\ lockLog = <<>> => getSurveyLockStatus = [worker |-> FALSE, manager |-> FALSE]
  /\ lockLog = <<[type |-> "worker", locked |-> TRUE]>>
       => getSurveyLockStatus = [worker |-> TRUE, manager |-> FALSE]
  /\ last.op = "getSurveyLocks" => last.locks = getSurveyLockStatus

\* the worker survey was locked, as the only write
C4_Witness ==
  /\ lockLog = <<[type |-> "worker", locked |-> TRUE]>>
  /\ last.op = "postSurveyLocks"
  /\ last.status = 200
  /\ last.locks.worker

\* C5: after any sequence of setSurveyLock calls getSurveyLockStatus returns
\* for each kind the boolean of the most recent call for that kind (false if
\* there was none), so that a write to one kind leaves the other kind's flag
\* alone, and the settings table holds at most one row per lock key.
C5_LastWriterWins ==
  /\ getSurveyLockStatus.worker = LastWrite("worker")
  /\ getSurveyLockStatus.manager = LastWrite("manager")
  /\ \A key \in {"lock_worker", "lock_manager"} :
       Cardinality({i \in 1..Len(settings) : settings[i].key = key}) <= 1
  /\ last.op = "postSurveyLocks" /\ last.status = 200
       => last.locks = [worker |-> LastWrite("worker"), manager |-> LastWrite("manager")]

\* one kind was written twice with different booleans, the other kind in between
C5_Witness ==
  \E i, j, k \in 1..Len(lockLog) :
    /\ i < k /\ k < j
    /\ lockLog[i].type = lockLog[j].type
    /\ lockLog[i].locked # lockLog[j].locked
    /\ lockLog[k].type # lockLog[i].type
    /\ lockLog[k].locked

(***************************************************************************)
(* The branch normalizer.                                                  *)
(***************************************************************************)
\* the branch values submitted: every canonical name, a town of Idlib, branch
\* numbers, an answer that names no city, names with blanks or dots around
\* them, two cities at once, a city with a number, and values that are not
\* strings
BranchValueInputs ==
  {Str(c) : c \in CanonicalNames}
  \cup {Str(JisrAlShughur), Str(<<"1", "2">>), Str(<<"ar_3">>), Str(Yes), Str(<<>>),
        Str(<<" ">> \o Aleppo \o <<" ">>),
        Str(<<"hah", ".", "meem", "sad">>),
        Str(Idlib \o <<" ">> \o Aleppo),
        Str(Damascus \o <<" ">> \o Homs),
        Str(Aleppo \o <<" ", "1">>),
        Num(5), Num(0),
        Arr(<<Str(Tartus)>>)}

\* the payloads submitted: the branch under its exact key, under a key that
\* only contains the word for station, under such a key next to an empty
\* value for the exact key, and no branch at all
BranchDataInputs ==
  {Obj(<<Prop(FairKey, Str(Yes)), Prop(BranchKey, v)>>) : v \in BranchValueInputs}
  \cup {Obj(<<Prop(FairKey, Str(Yes)), Prop(StationKey, Str(JisrAlShughur))>>),
        Obj(<<Prop(StationKey, Str(Hama)), Prop(BranchWord, Str(<<"7">>))>>),
        Obj(<<Prop(StationKey, Str(JisrAlShughur)), Prop(BranchKey, Str(<<>>))>>),
        Obj(<<Prop(FairKey, Str(Yes))>>)}

CleanSaveInputs ==
  {[type |-> Str(Worker), data |-> d] : d \in BranchDataInputs}
  \cup {[type |-> Str(Manager), data |-> d] :
          d \in {ScenarioData, Obj(<<Prop(BranchKey, Str(Homs))>>)}}

NextClean ==
  \/ CleanBranchNames
  \/ \E r \in CleanSaveInputs : SaveSurvey(r.type, r.data)

SpecClean == Init /\ [][NextClean]_vars

\* C6: cleanBranchNames run twice in succession with no other writer in
\* between: the second run rewrites no row and returns 0, whatever branch
\* values are stored, the canonical city names included.
C6_CleanTwice ==
  /\ LET first == cleanBranchNames(tables)
         second == cleanBranchNames(first.tables)
     IN /\ second.updatedCount = 0
        /\ second.tables = first.tables
  /\ (last.op = "cleanBranchNames" /\ last.previousCount >= 0) => last.updatedCount = 0
  /\ last.op = "cleanBranchNames" => cleanBranchNames(tables).tables = tables
  /\ \A c \in CanonicalNames : MatchBranch(c) \in {Str(c), Undefined}

\* a run that rewrote rows was followed at once by a second run
C6_Witness ==
  /\ last.op = "cleanBranchNames"
  /\ last.previousCount > 0
  /\ last.updatedCount = 0

(***************************************************************************)
(* Listing, counting, searching and filtering.                             *)
(***************************************************************************)
City == <<"c", "i", "t", "y">>

DottedKey == <<"a", ".", "b">>

No == <<"lam", "alef">>

\* the payloads stored: two answers under plain keys, and a payload with a
\* field whose name holds a dot next to an object nested under the first part
\* of that name
PlainData(city, fair) == Obj(<<Prop(City, Str(city)), Prop(FairKey, Str(fair))>>)

DottedData ==
  Obj(<<Prop(DottedKey, Str(<<"v">>)),
        Prop(<<"a">>, Obj(<<Prop(<<"b">>, Str(<<"w">>))>>))>>)

QuerySaveInputs ==
  {[type |-> Str(Manager), data |-> PlainData(Aleppo, Yes)],
   [type |-> Str(Manager), data |-> PlainData(Homs, No)],
   [type |-> Str(Worker), data |-> DottedData]}

\* the filters mappings: one key, two keys with two values, a key with a
\* dot, the receivedAt column, an empty list next to a value that is no list
CityFilter == Obj(<<Prop(City, Arr(<<Str(Aleppo)>>))>>)

TwoKeyFilter ==
  Obj(<<Prop(City, Arr(<<Str(Aleppo), Str(Homs)>>)), Prop(FairKey, Arr(<<Str(No)>>))>>)

DottedFilter == Obj(<<Prop(DottedKey, Arr(<<Str(<<"v">>)>>))>>)

ReceivedAtFilter ==
  Obj(<<Prop(KeyReceivedAt, Arr(<<Str(Iso(0)), Str(MysqlDatetime(Iso(0)))>>)),
        Prop(City, Arr(<<Str(Homs)>>))>>)

SkippedFilter == Obj(<<Prop(City, Arr(<<>>)), Prop(FairKey, Str(Yes))>>)

FilterInputs ==
  {Obj(<<>>), CityFilter, TwoKeyFilter, DottedFilter, ReceivedAtFilter, SkippedFilter}

\* the searches and filters handed to the list and count operations: no
\* search, an answer, a part of a receivedAt
QueryCases ==
  {[search |-> Str(<<>>), filters |-> f] : f \in FilterInputs}
  \cup {[search |-> Str(Homs), filters |-> Obj(<<>>)],
        [search |-> Str(<<"0", "T">>), filters |-> TwoKeyFilter]}

\* the offsets handed over together with the limit 'all'
OffsetInputs == {Num(0), Num(1), Undefined}

\* the page and limit of a query string
PagingInputs ==
  {[page |-> page, limit |-> limit] :
     page \in {Undefined, Str(<<"2">>), Str(<<"0">>), Str(<<"x">>), Str(<<"1", ".", "5">>)},
     limit \in {Undefined, Str(<<"1">>), Str(<<"0">>), Str(<<"x">>),
                Str(<<"2", ".", "7">>), Str(<<"-", "1">>)}}

\* the query strings of the signed-in client
SurveyQueries ==
  {[page |-> Undefined, limit |-> All, search |-> Undefined, filters |-> CityFilter],
   [page |-> Undefined, limit |-> All, search |-> Undefined, filters |-> DottedFilter],
   [page |-> Undefined, limit |-> All, search |-> Str(Homs), filters |-> Undefined],
   [page |-> Undefined, limit |-> All, search |-> Undefined, filters |-> SkippedFilter],
   [page |-> Str(<<"2">>), limit |-> Str(<<"1">>), search |-> Undefined,
    filters |-> TwoKeyFilter],
   [page |-> Str(<<"0">>), limit |-> Str(<<"-", "1">>), search |-> Undefined,
    filters |-> Undefined]}

NextQuery ==
  \/ Tick
  \/ \E r \in QuerySaveInputs : SaveSurvey(r.type, r.data)
  \/ \E q \in SurveyQueries : GetSurveys(PathSurveys, Str(SESSION_SECRET), q)

SpecQuery == Init /\ [][NextQuery]_vars

\* the rows of a table that satisfy the WHERE built for a search and filters
Matching(table, search, filters) ==
  LET w == buildWhereClause(search, filters, IS_MYSQL)
  IN {i \in 1..Len(tables[table]) : HoldsWhere(tables[table][i], w.whereFragment, w.params)}

\* C3: in every store state, for every search string and filters mapping,
\* getManagersCount(search, filters) equals the length of
\* getAllManagers('all', 0, search, filters), and likewise for workers.
C3_CountIsLengthOfAll ==
  /\ \A c \in QueryCases :
       LET managersCount == getManagersCount(c.search, c.filters)
           managers == getAllManagers(All, Num(0), c.search, c.filters)
           workersCount == getWorkersCount(c.search, c.filters)
           workers == getAllWorkers(All, Num(0), c.search, c.filters)
       IN /\ managersCount.ok = managers.ok
          /\ managersCount.ok => managersCount.n = Len(managers.rows)
          /\ workersCount.ok = workers.ok
          /\ workersCount.ok => workersCount.n = Len(workers.rows)
  /\ (last.op = "surveys" /\ last.status = 200 /\ last.query.limit = All)
       => /\ last.pagination.totalManagers = Len(last.managers)
          /\ last.pagination.totalWorkers = Len(last.workers)

\* a filter was answered that keeps one stored manager and leaves another out
C3_Witness ==
  /\ last.op = "surveys"
  /\ last.status = 200
  /\ last.query.limit = All
  /\ last.query.filters = CityFilter
  /\ last.pagination.totalManagers > 0
  /\ last.pagination.totalManagers < Len(tables["managers"])

FieldOf(row, key) ==
  IF key = KeyReceivedAt THEN Str(row.receivedAt) ELSE Get(JsonParse(row.data), key)

\* the filter semantics as stated: for every key whose value is a non-empty
\* list, the field is one of the listed values
Selected(row, filters) ==
  \A i \in 1..Len(filters.p) :
    LET values == filters.p[i].v
    IN (values.t = "array" /\ Len(values.a) > 0)
         => \E j \in 1..Len(values.a) : values.a[j] = FieldOf(row, filters.p[i].k)

\* C10 (as stated): for every filters mapping a record is returned by the
\* list operations and counted by the count operations iff for every key
\* whose value is a non-empty list the record's value for that field (the
\* receivedAt column for the key 'receivedAt', the payload field otherwise) is
\* one of the listed values.
C10_FilterSemantics ==
  \A table \in TableNames : \A filters \in FilterInputs :
    LET list == getAll(table, All, Num(0), Str(<<>>), filters)
        count == getCount(table, Str(<<>>), filters)
        selected == {i \in 1..Len(tables[table]) : Selected(tables[table][i], filters)}
    IN /\ \A i \in 1..Len(tables[table]) :
            (i \in selected) <=>
              (list.ok /\ \E j \in 1..Len(list.rows) :
                             list.rows[j] = RecordOf(tables[table][i]))
       /\ selected # {} => count.ok
       /\ count.ok => count.n = Cardinality(selected)

\* the filters that name no condition: none, an empty mapping, an empty list
\* next to a value that is no list, a list of an empty list and a string, a
\* value that is no object
EmptyFilterInputs ==
  {Undefined, Obj(<<>>), SkippedFilter,
   Arr(<<Arr(<<>>), Str(Yes)>>), Str(City), Num(1)}

\* the searches that are empty
EmptySearchInputs == {Undefined, Str(<<>>)}

\* C11: buildWhereClause with an empty search and filters that are empty (or
\* whose every entry is an empty list or not a list) returns an empty
\* fragment and an empty parameter list, so the list and count operations
\* select every row of the collection.
C11_EmptyFiltersSelectAll ==
  /\ \A search \in EmptySearchInputs : \A filters \in EmptyFilterInputs :
       /\ buildWhereClause(search, filters, IS_MYSQL)
            = [whereFragment |-> <<>>, params |-> <<>>]
       /\ \A table \in TableNames :
            LET list == getAll(table, All, Num(0), search, filters)
                count == getCount(table, search, filters)
            IN /\ list.ok
               /\ Len(list.rows) = Len(tables[table])
               /\ \A i \in 1..Len(tables[table]) :
                    \E j \in 1..Len(list.rows) :
                      list.rows[j] = RecordOf(tables[table][i])
               /\ count.ok
               /\ count.n = Len(tables[table])
  /\ (/\ last.op = "surveys"
      /\ last.query.limit = All
      /\ last.query.search \in EmptySearchInputs
      /\ last.query.filters \in EmptyFilterInputs)
       => /\ last.status = 200
          /\ Len(last.managers) = Len(tables["managers"])
          /\ Len(last.workers) = Len(tables["workers"])
          /\ last.pagination.totalManagers = Len(tables["managers"])
          /\ last.pagination.totalWorkers = Len(tables["workers"])

\* filters of an empty list and a value that is no list were answered with
\* every stored record, two managers among them
C11_Witness ==
  /\ last.op = "surveys"
  /\ last.status = 200
  /\ last.query.filters = SkippedFilter
  /\ Len(tables["managers"]) = 2
  /\ Len(last.managers) = 2
  /\ last.pagination.totalManagers = 2

\* the instant a receivedAt text of a returned record stands for
TimeOf(receivedAt) == CHOOSE n \in 0..MaxNow : Iso(n) = receivedAt

\* a sequence of records is ordered by receivedAt, latest first
Descending(records) ==
  \A i \in 1..(Len(records) - 1) :
    TimeOf(Get(records[i], KeyReceivedAt).s)
      >= TimeOf(Get(records[i + 1], KeyReceivedAt).s)

\* the limits handed to the list operations
LimitInputs == {All, Num(1), Num(2)}

RandomInputs == {<<>>, <<"k">>}

\* the entries handed to addManager / addWorker: without an id, and with one
StoreEntryInputs ==
  {<<Prop(BranchKey, Str(Homs))>>,
   <<Prop(KeyId, Str(DecStr(0))), Prop(FairKey, Str(Yes)),
     Prop(KeyReceivedAt, Str(Iso(0)))>>}

\* addManager(entry) / addWorker(entry) called at the instant now; the
\* outcome is remembered with the ids the table held before the call
AddEntry(table, entry, rnd) ==
  LET r == IF table = "managers" THEN addManager(entry, rnd) ELSE addWorker(entry, rnd)
      head == [op |-> "add", table |-> table, entry |-> entry, rnd |-> rnd,
               at |-> now, before |-> Ids(tables[table]), ok |-> r.ok]
  IN /\ Len(tables[table]) < MaxRows
     /\ tables' = [tables EXCEPT ![table] = r.rows]
     /\ last' = IF r.ok THEN head @@ [id |-> r.id] ELSE head
     /\ UNCHANGED <<IS_MYSQL, settings, now, lockLog, pass, store>>

\* deleteManager(id) / deleteWorker(id)
DeleteRecord(table, id) ==
  LET r == IF table = "managers" THEN deleteManager(id) ELSE deleteWorker(id)
  IN /\ tables' = [tables EXCEPT ![table] = r.rows]
     /\ last' = [op |-> "delete", table |-> table, id |-> id, deleted |-> r.deleted]
     /\ UNCHANGED <<IS_MYSQL, settings, now, lockLog, pass, store>>

NextStore ==
  \/ Tick
  \/ \E table \in TableNames : \E entry \in StoreEntryInputs : \E rnd \in RandomInputs :
       AddEntry(table, entry, rnd)
  \/ \E table \in TableNames : \E id \in IdInputs : DeleteRecord(table, id)
  \/ SaveSurvey(Str(Worker), ScenarioData)

SpecStore == Init /\ [][NextStore]_vars

\* the id an add assigns: the entry's own when it is truthy, else Date.now()
\* followed by the random text
AssignedId(entry, at, rnd) ==
  IF Truthy(Get(entry, KeyId)) THEN JsString(Get(entry, KeyId)) ELSE DecStr(at) \o rnd

\* the last call was an add that stored a row under the id it returned
StoredUnderReturnedId ==
  /\ last.ok
  /\ Ids(tables[last.table]) = last.before \cup {last.id}
  /\ Len(RowsById(tables[last.table], last.id)) = 1

UniqueIds(rows) == \A i, j \in 1..Len(rows) : rows[i].id = rows[j].id => i = j

\* C15: after any sequence of operations no two records of the same kind
\* share an id; an add (or POST /api/save-survey) whose assigned id already
\* exists in that kind fails with an error (HTTP 500) and leaves the existing
\* record and the rest of the collection unchanged.
C15_DuplicateIdRejected ==
  /\ [](\A table \in TableNames : UniqueIds(tables[table]))
  /\ [][/\ (/\ last' # last
            /\ last'.op = "add"
            /\ AssignedId(last'.entry, last'.at, last'.rnd) \in Ids(tables[last'.table]))
           => (~last'.ok /\ tables' = tables)
        /\ (/\ last' # last
            /\ last'.op = "saveSurvey"
            /\ DecStr(now) \in Ids(tables[TableOf(last'.type)]))
           => (last'.status = 500 /\ tables' = tables)]_vars

\* a POST was answered 500 because a record of its kind had the id already,
\* and that record is still stored
C15_Witness ==
  /\ last.op = "saveSurvey"
  /\ last.status = 500
  /\ Len(RowsById(tables["workers"], DecStr(now))) = 1

(***************************************************************************)
(* cleanBranchNames statement by statement (SpecPass).  On the networked   *)
(* engine the call awaits every SELECT and every UPDATE, and the           *)
(* statements of other requests run in between; on the embedded engine the *)
(* call has no await and runs as CleanBranchNames does.                    *)
(***************************************************************************)
\* const tables = ['workers', 'managers']
PassTables == <<"workers", "managers">>

\* the first row at or after position i that the loop rewrites, 0 when the
\* loop reaches the end of the rows without an UPDATE
NextUpdate(rows, i) ==
  LET hits == {j \in i..Len(rows) : cleanRow(rows[j]).update}
  IN IF hits = {} THEN 0 ELSE CHOOSE j \in hits : \A k \in hits : j <= k

\* the call runs on until its next await: an UPDATE of a row of the rows
\* read, the SELECT of the next table, or the return of updatedCount.  p is
\* the call after a statement, tabs the tables that statement left
PassContinue(p, tabs) ==
  LET j == NextUpdate(p.rows, p.i)
      q == [p EXCEPT !.seen = tabs]
  IN IF j # 0 THEN /\ pass' = [q EXCEPT !.pc = "update", !.i = j]
                   /\ UNCHANGED last
     ELSE IF p.t < Len(PassTables)
     THEN /\ pass' = [q EXCEPT !.pc = "select", !.t = p.t + 1]
          /\ UNCHANGED last
     ELSE /\ pass' = NoPass
          /\ last' = [op |-> "cleanBranchNames", status |-> 200,
                      updatedCount |-> p.updatedCount,
                      previousCount |-> IF last.op = "cleanBranchNames"
                                        THEN last.updatedCount ELSE -1,
                      changed |-> p.changed,
                      disturbed |-> p.disturbed]

\* cleanBranchNames() is called: it runs up to the await of its first SELECT
CleanStart ==
  /\ IS_MYSQL
  /\ pass.pc = "idle"
  /\ pass' = [pc |-> "select", t |-> 1, rows |-> <<>>, i |-> 1, updatedCount |-> 0,
              changed |-> 0, disturbed |-> FALSE, seen |-> tables]
  /\ UNCHANGED <<IS_MYSQL, tables, settings, now, last, lockLog, store>>

\* SELECT id, data FROM <table> is answered
CleanSelect ==
  /\ pass.pc = "select"
  /\ PassContinue([pass EXCEPT !.rows = tables[PassTables[pass.t]], !.i = 1,
                               !.disturbed = pass.disturbed \/ tables # pass.seen],
                  tables)
  /\ UNCHANGED <<IS_MYSQL, tables, settings, now, lockLog, store>>

\* a pass that writes the row back whether or not it is still stored
\* (REPLACE INTO <table> in place of the UPDATE)
CleanUpdate_Replaces ==
  LET table == PassTables[pass.t]
      row == pass.rows[pass.i]
      updatedJson == cleanRow(row).data
      kept == SelectSeq(tables[table], LAMBDA r : r.id # row.id)
      after == [tables EXCEPT ![table] = Append(kept, [row EXCEPT !.data = updatedJson])]
  IN /\ pass.pc = "update"
     /\ tables' = after
     /\ PassContinue([pass EXCEPT !.i = pass.i + 1,
                                  !.updatedCount = pass.updatedCount + 1,
                                  !.changed = pass.changed + 1,
                                  !.disturbed = pass.disturbed \/ tables # pass.seen],
                     after)
     /\ UNCHANGED <<IS_MYSQL, settings, now, lockLog, store>>

\* UPDATE <table> SET data = ? WHERE id = ? is answered; updatedCount++
CleanUpdate ==
  LET table == PassTables[pass.t]
      row == pass.rows[pass.i]
      updatedJson == cleanRow(row).data
      updated == [i \in 1..Len(tables[table]) |->
                    IF SqlIdEquals(tables[table][i].id, row.id)
                    THEN [tables[table][i] EXCEPT !.data = updatedJson]
                    ELSE tables[table][i]]
      after == [tables EXCEPT ![table] = updated]
  IN /\ pass.pc = "update"
     /\ tables' = after
     /\ PassContinue([pass EXCEPT !.i = pass.i + 1,
                                  !.updatedCount = pass.updatedCount + 1,
                                  !.changed = pass.changed + RowsChanged(tables, after),
                                  !.disturbed = pass.disturbed \/ tables # pass.seen],
                     after)
     /\ UNCHANGED <<IS_MYSQL, settings, now, lockLog, store>>

\* the requests served while a pass may be running
PassSaveInputs ==
  {[type |-> Str(Worker), data |-> ScenarioData],
   [type |-> Str(Manager), data |-> OwnIdData]}

NextPass ==
  \/ Tick
  \/ \E b \in PassSaveInputs : SaveSurvey(b.type, b.data)
  \/ \E type \in {Manager, Worker} :
       DeleteSurvey(PathSurveyPrefix, type, DecStr(0), Str(SESSION_SECRET))
  \/ ~IS_MYSQL /\ CleanBranchNames
  \/ CleanStart
  \/ CleanSelect
  \/ CleanUpdate

SpecPass == Init /\ [][NextPass]_vars

\* C18 (as stated): cleanBranchNames rewrites and persists a record exactly
\* when the computed canonical name exists and differs from the stored branch
\* value, and the number it returns equals the number of stored rows whose
\* payload was actually changed by the pass, also when other requests delete
\* or add records while the pass runs.
C18_CountIsRowsChanged ==
  last.op = "cleanBranchNames" => last.updatedCount = last.changed

\* C18 (amended): the number cleanBranchNames returns is the number of UPDATE
\* statements it issued, one for every row it read whose computed canonical
\* name exists and differs from the branch value read; it is never less than
\* the number of stored rows whose payload the pass changed, and equals it
\* when no other request changed the tables while the pass ran (always so on
\* the embedded engine).
C18_CountIsUpdatesIssued ==
  /\ last.op = "cleanBranchNames" =>
       /\ last.changed <= last.updatedCount
       /\ (~IS_MYSQL \/ ~last.disturbed) => last.updatedCount = last.changed
  /\ pass.pc # "idle" =>
       /\ IS_MYSQL
       /\ pass.changed <= pass.updatedCount
       /\ (~pass.disturbed /\ tables = pass.seen) => pass.updatedCount = pass.changed

\* a pass on the networked engine that no request disturbed rewrote a row and
\* returned 1
C18_Witness ==
  /\ IS_MYSQL
  /\ last.op = "cleanBranchNames"
  /\ ~last.disturbed
  /\ last.updatedCount = 1
  /\ last.changed = 1

\* the rows of a table stored under an id
StoredUnder(rows, id) == SelectSeq(rows, LAMBDA r : r.id = id)

\* C14: after any sequence of add, delete and cleanBranchNames operations,
\* no stored payload contains a key named id or receivedAt, and the id and
\* receivedAt columns of a stored row never change between its insertion and
\* its deletion.
C14_ColumnsKeptOutOfPayload ==
  /\ [](\A table \in TableNames : \A i \in 1..Len(tables[table]) :
          /\ ~HasKey(JsonParse(tables[table][i].data), KeyId)
          /\ ~HasKey(JsonParse(tables[table][i].data), KeyReceivedAt))
  /\ [][\A table \in TableNames : \A i \in 1..Len(tables[table]) :
          LET row == tables[table][i]
              kept == StoredUnder(tables'[table], row.id)
          IN \/ /\ kept = <<>>
                /\ last'.op = "deleteSurvey"
                /\ last'.status = 200
                /\ last'.id = row.id
             \/ /\ Len(kept) = 1
                /\ kept[1].receivedAt = row.receivedAt]_vars

\* a submission naming id and receivedAt itself is stored, and a pass has
\* rewritten the payload of a worker that is stored still
C14_Witness ==
  /\ last.op = "cleanBranchNames"
  /\ last.changed = 1
  /\ Len(tables["managers"]) > 0
  /\ Get(JsonParse(tables["managers"][1].data), BranchKey) = Str(Aleppo)
  /\ Len(tables["workers"]) > 0
  /\ Get(JsonParse(tables["workers"][1].data), BranchKey) = Str(Idlib)

\* the keyword lists in the order the matching logic tries them, each with
\* the city it stands for
PriorityOrder ==
  <<[keywords |-> aleppoKeywords, city |-> Aleppo],
    [keywords |-> tartusKeywords, city |-> Tartus],
    [keywords |-> raqqaKeywords, city |-> Raqqa],
    [keywords |-> hamaKeywords, city |-> Hama],
    [keywords |-> daraaKeywords, city |-> Daraa],
    [keywords |-> deirEzorKeywords, city |-> DeirEzor],
    [keywords |-> homsKeywords, city |-> Homs],
    [keywords |-> lattakiaKeywords, city |-> Lattakia],
    [keywords |-> damascusKeywords, city |-> Damascus],
    [keywords |-> idlibKeywords, city |-> Idlib]>>

\* the lists that have a keyword contained in the normalized value
ListsMatching(value) ==
  LET normalized == normalizeAr(value)
  IN {n \in 1..Len(PriorityOrder) :
        \E k \in PriorityOrder[n].keywords : Includes(normalized, k)}

HasDigit(value) ==
  \E i \in 1..Len(value) : value[i] \in Range(Digits) \cup ArabicIndicDigits

\* the city a branch value is to be mapped to, Undefined when it is to be
\* left as it is
ExpectedCity(value) ==
  LET lists == ListsMatching(value)
  IN IF lists # {}
     THEN Str(PriorityOrder[CHOOSE n \in lists : \A m \in lists : n <= m].city)
     ELSE IF HasDigit(value) THEN Str(Idlib)
     ELSE Undefined

\* the rows read by the pass served last, each with the row the pass left
RowsOfLastPass ==
  {[before |-> last.read[x[1]][x[2]], after |-> tables[x[1]][x[2]]] :
     x \in {y \in TableNames \X (1..MaxRows) : y[2] <= Len(last.read[y[1]])}}

\* C16: cleanBranchNames maps a branch value to the city of the first
\* keyword list, in the fixed priority order, that has a keyword contained in
\* the normalized value; a value containing a Latin or Arabic-Indic digit is
\* mapped to Idlib by the final fallback rule; a value that matches no list
\* and has no digit is left unchanged.
C16_FirstMatchingListWins ==
  /\ \A v \in BranchValueInputs :
       v.t = "string" => MatchBranch(v.s) = ExpectedCity(v.s)
  /\ last.op = "cleanBranchNames" =>
       \A r \in RowsOfLastPass :
         LET data == JsonParse(r.before.data)
             value == BranchValueOf(data)
             city == ExpectedCity(value)
         IN IF city.t = "string" /\ city.s # value
            THEN r.after.data = JsonStringify(Set(data, LocateBranchKey(data), city))
            ELSE r.after = r.before

\* a pass read a branch value that matches no list and holds a digit, and
\* left Idlib in its place
C16_Witness ==
  /\ last.op = "cleanBranchNames"
  /\ \E r \in RowsOfLastPass :
       LET value == BranchValueOf(JsonParse(r.before.data))
       IN /\ ListsMatching(value) = {}
          /\ HasDigit(value)
          /\ Get(JsonParse(r.after.data), BranchKey) = Str(Idlib)

\* the key the branch name is to be looked for under: the exact key, or the
\* first key that contains one of the two words when the exact key is absent
\* or its value is empty
KeyAsStated(data) ==
  IF (~HasKey(data, BranchKey) \/ ~Truthy(Get(data, BranchKey)))
     /\ FoundKeyIndex(data) # 0
  THEN data[FoundKeyIndex(data)].k
  ELSE BranchKey

\* C17 (as stated): for each record cleanBranchNames uses the value under the
\* exact branch-name key, and falls back to the first key whose normalized
\* form contains the 'branch' or 'station' substring whenever the exact key is
\* absent or its value is empty; the rewritten field is the one that was
\* located.
C17_FallbackWhenAbsentOrEmpty ==
  last.op = "cleanBranchNames" =>
    \A r \in RowsOfLastPass :
      LET data == JsonParse(r.before.data)
          key == KeyAsStated(data)
          value == IF Truthy(Get(data, key)) THEN JsString(Get(data, key)) ELSE <<>>
          city == MatchBranch(value)
      IN IF city.t = "string" /\ city.s # value
         THEN r.after.data = JsonStringify(Set(data, key, city))
         ELSE r.after = r.before

(***************************************************************************)
(* Opening the store (SpecInit): concurrent calls of the storage           *)
(* operations, each of which asks for the handle first.                    *)
(***************************************************************************)
\* initMySQL() up to its first await, for caller c, with the check and the
\* assignment of mysqlPool left to the end of the initialisation
initMySQL_AssignsWhenReady(s, c) ==
  IF s.mysqlPool # 0
  THEN [s EXCEPT !.calls[c].pc = "holds", !.calls[c].got = @ \cup {s.mysqlPool}]
  ELSE [s EXCEPT !.created = @ + 1, !.calls[c].pc = "getConnection"]

\* initMySQL() up to its first await, for caller c: the pool there is, or
\* mysqlPool = mysql.createPool(...) and the await of getConnection()
initMySQL(s, c) ==
  IF s.mysqlPool # 0
  THEN [s EXCEPT !.calls[c].pc = "holds", !.calls[c].got = @ \cup {s.mysqlPool}]
  ELSE [s EXCEPT !.mysqlPool = s.created + 1, !.created = @ + 1,
                 !.calls[c].pc = "getConnection"]

\* getSQLite(), for caller c: if (!sqliteDb) sqliteDb = initSQLite()
getSQLite(s, c) ==
  LET opened == IF s.sqliteDb = 0
                THEN [s EXCEPT !.sqliteDb = s.created + 1, !.created = @ + 1]
                ELSE s
  IN [opened EXCEPT !.calls[c].pc = "holds", !.calls[c].got = @ \cup {opened.sqliteDb}]

\* the awaits of initMySQL, in order: getConnection(), then the three
\* CREATE TABLE IF NOT EXISTS queries
InitAwaits == <<"getConnection", "managers", "workers", "settings">>

\* a request calls a storage operation, which asks for the handle
CallStorage(c) ==
  /\ store.calls[c].pc = "idle"
  /\ store.calls[c].done < MaxCalls
  /\ store' = IF IS_MYSQL THEN initMySQL(store, c) ELSE getSQLite(store, c)
  /\ UNCHANGED <<IS_MYSQL, tables, settings, now, last, lockLog, pass>>

\* an await of initMySQL resolves; after the last one the connection is
\* released and mysqlPool is returned
AwaitResolved(c) ==
  LET pc == store.calls[c].pc
      n == CHOOSE i \in 1..Len(InitAwaits) : InitAwaits[i] = pc
  IN /\ pc \in Range(InitAwaits)
     /\ store' = IF n < Len(InitAwaits)
                 THEN [store EXCEPT !.calls[c].pc = InitAwaits[n + 1]]
                 ELSE [store EXCEPT !.schema = TRUE,
                                    !.calls[c].pc = "holds",
                                    !.calls[c].got = @ \cup {store.mysqlPool}]
     /\ UNCHANGED <<IS_MYSQL, tables, settings, now, last, lockLog, pass>>

\* an await of initMySQL rejects: the error is logged and thrown again
AwaitRejected(c) ==
  /\ store.calls[c].pc \in Range(InitAwaits)
  /\ store' = [store EXCEPT !.calls[c].pc = "failed"]
  /\ UNCHANGED <<IS_MYSQL, tables, settings, now, last, lockLog, pass>>

\* the storage operation returns or throws
ReturnFromCall(c) ==
  /\ store.calls[c].pc \in {"holds", "failed"}
  /\ store' = [store EXCEPT !.calls[c].pc = "idle", !.calls[c].done = @ + 1]
  /\ UNCHANGED <<IS_MYSQL, tables, settings, now, last, lockLog, pass>>

NextInit ==
  \E c \in 1..MaxCallers :
    \/ CallStorage(c)
    \/ AwaitResolved(c)
    \/ AwaitRejected(c)
    \/ ReturnFromCall(c)

SpecInit == Init /\ [][NextInit]_vars

\* C20: under any interleaving of concurrent first calls to the storage
\* operations, the underlying store handle (SQLite database or MySQL pool) is
\* created at most once per process and every later call reuses that same
\* handle.
C20_HandleCreatedOnce ==
  /\ store.created <= 1
  /\ \A c \in 1..MaxCallers :
       /\ store.calls[c].got \subseteq {1}
       /\ store.calls[c].got \subseteq
            {IF IS_MYSQL THEN store.mysqlPool ELSE store.sqliteDb}

\* a second request was given the pool while the first call was still
\* creating the tables
C20_Witness ==
  /\ IS_MYSQL
  /\ store.created = 1
  /\ \E c, d \in 1..MaxCallers :
       /\ c # d
       /\ store.calls[c].pc = "workers"
       /\ store.calls[d].pc = "holds"
       /\ store.calls[d].got = {1}

\* the step is the answer to a POST /api/save-survey
AnswersSave == last' # last /\ last'.op = "saveSurvey"

\* the tables after the step hold one more record of the kind, the rows it
\* had before kept, and the other kind as it was
AddsOneRecord(type) ==
  LET kind == IF type = Str(Manager) THEN "managers" ELSE "workers"
  IN /\ Len(tables'[kind]) = Len(tables[kind]) + 1
     /\ SubSeq(tables'[kind], 1, Len(tables[kind])) = tables[kind]
     /\ \A other \in TableNames \ {kind} : tables'[other] = tables[other]

\* the body names no type, no data, or a type other than the two kinds
Refused(type, data) ==
  ~Truthy(type) \/ ~Truthy(data) \/ type \notin {Str(Manager), Str(Worker)}

\* C19 (as stated): POST /api/save-survey with a missing type, a missing
\* data, or a type other than 'manager' and 'worker' answers 400 and stores
\* no record in either collection; with a valid type it adds exactly one
\* record to that kind's collection and none to the other.
C19_SaveAddsOneRecord ==
  [][AnswersSave =>
       IF Refused(last'.type, last'.data)
       THEN last'.status = 400 /\ tables' = tables
       ELSE AddsOneRecord(last'.type)]_vars

\* C19 (amended): POST /api/save-survey with a missing type, a missing data,
\* or a type other than 'manager' and 'worker' answers 400 and stores no
\* record in either collection; with a valid type and a data it answers
\* success and adds exactly one record, under the id Date.now(), to that
\* kind's collection and none to the other, unless a record of that kind has
\* that id already: then it answers 500 and stores no record.
C19_SaveAddsOneRecordOrFails ==
  [][AnswersSave =>
       IF Refused(last'.type, last'.data)
       THEN last'.status = 400 /\ tables' = tables
       ELSE IF DecStr(now) \in Ids(tables[IF last'.type = Str(Manager)
                                          THEN "managers" ELSE "workers"])
       THEN last'.status = 500 /\ tables' = tables
       ELSE /\ last'.status = 200
            /\ last'.id = DecStr(now)
            /\ AddsOneRecord(last'.type)]_vars

\* a manager's submission was stored next to an earlier one while a worker's
\* record is stored
C19_Witness ==
  /\ last.op = "saveSurvey"
  /\ last.status = 200
  /\ last.type = Str(Manager)
  /\ Len(tables["managers"]) = 2
  /\ tables["managers"][2].id = last.id
  /\ Len(tables["workers"]) = 1

(***************************************************************************)
(* getAnalysisAggregation.                                                 *)
(***************************************************************************)
\* the field names the aggregation reads, next to the branch-name key
AnalysisFields ==
  [satisfaction |->
     <<"meem", "dal", "alef_maksura", " ", "alef", "lam", "reh", "dad", "alef", " ",
       "ain", "noon", " ", "alef", "lam", "ain", "meem", "lam">>,
   supervision |-> FairKey,
   salary |->
     <<"alef", "lam", "reh", "alef", "teh", "beh", " ",
       "meem", "noon", "alef", "seen", "beh", "ar_qmark">>,
   hours |->
     <<"seen", "alef", "ain", "alef", "teh", " ", "alef", "lam", "ain", "meem", "lam", " ",
       "meem", "noon", "alef", "seen", "beh", "teh_marbuta", "ar_qmark">>,
   appreciation |->
     <<"alef", "lam", "sheen", "ain", "waw", "reh", " ",
       "beh", "alef", "lam", "teh", "qaf", "dal", "yeh", "reh", "ar_qmark">>,
   stability |->
     <<"alef", "lam", "alef", "seen", "teh", "qaf", "reh", "alef", "reh", " ",
       "alef", "lam", "waw", "zah", "yeh", "feh", "yeh", "ar_qmark">>,
   recommendation |->
     <<"heh", "lam", " ", "teh", "noon", "sad", "hah", " ",
       "beh", "alef", "lam", "ain", "meem", "lam", " ", "feh", "yeh", " ",
       "alef", "lam", "meem", "hah", "tah", "teh_marbuta", "ar_qmark">>,
   violations |->
     <<"alef_hamza_above", "seen", "beh", "alef", "beh", " ",
       "alef", "lam", "meem", "khah", "alef", "lam", "feh", "alef", "teh">>,
   durations |->
     <<"meem", "dal", "teh_marbuta", " ", "alef", "lam", "ain", "meem", "lam", " ",
       "feh", "yeh", " ", "meem", "noon", "sad", "beh", " ",
       "meem", "dal", "yeh", "reh", " ", "meem", "hah", "tah", "teh_marbuta">>]

\* the answer "never satisfied"
NeverSatisfied ==
  <<"ghain", "yeh", "reh", " ", "reh", "alef", "dad", "yeh", " ",
    "alef_hamza_above", "beh", "dal", "alef", "fathatan">>

\* the counts object built by counts[k] = (counts[k] || 0) + 1 over the keys
\* in the order given
CountKeys(keys) ==
  [k \in Range(keys) |-> Cardinality({j \in 1..Len(keys) : keys[j] = k})]

\* aggregate(data, field): the rows counted by their trimmed value of the field
aggregate(data, field) ==
  LET val(i) == LET raw == Get(data[i], field)
                IN IF raw.t = "string" THEN Str(Trim(raw.s)) ELSE raw
      counted == SelectSeq([i \in 1..Len(data) |-> val(i)], Truthy)
  IN CountKeys([j \in 1..Len(counted) |-> JsString(counted[j])])

\* aggregateMulti(data, field): the parts of a comma-separated text and the
\* members of a list, each counted
aggregateMulti(data, field) ==
  LET trimmed(v) == IF v.t = "string" THEN Str(Trim(v.s)) ELSE v
      members(val) ==
        IF val.t = "string"
        THEN LET parts == Split(val.s, ",")
             IN [j \in 1..Len(parts) |-> Str(Trim(parts[j]))]
        ELSE IF val.t = "array" THEN [j \in 1..Len(val.a) |-> trimmed(val.a[j])]
        ELSE <<>>
      counted(i) == SelectSeq(members(Get(data[i], field)), Truthy)
      all == Concat([i \in 1..Len(data) |-> counted(i)])
  IN CountKeys([j \in 1..Len(all) |-> JsString(all[j])])

\* a timeline that counts every date once
getTimeline_CountsDatesOnce(data) ==
  LET dates == {Split(Get(data[i], KeyReceivedAt).s, "T")[1] : i \in 1..Len(data)}
  IN [d \in dates |-> 1]

\* getTimeline(data): the rows counted by the date part of receivedAt
getTimeline(data) ==
  LET dated == SelectSeq(data, LAMBDA row : Truthy(Get(row, KeyReceivedAt)))
      date(row) ==
        LET receivedAt == Get(row, KeyReceivedAt).s
        IN IF Includes(receivedAt, <<"T">>) THEN Split(receivedAt, "T")[1]
           ELSE Split(receivedAt, " ")[1]
  IN CountKeys([j \in 1..Len(dated) |-> date(dated[j])])

\* getAnalysisAggregation(branchName)
getAnalysisAggregation(branchName) ==
  LET filters == IF Truthy(branchName)
                 THEN Obj(<<Prop(BranchKey, Arr(<<branchName>>))>>)
                 ELSE Obj(<<>>)
      workers == getAllWorkers(All, Num(0), Str(<<>>), filters)
      managers == getAllManagers(All, Num(0), Str(<<>>), filters)
      dissatisfiedWorkers ==
        SelectSeq(workers.rows,
                  LAMBDA w : Get(w, AnalysisFields.satisfaction) = Str(NeverSatisfied))
  IN IF workers.ok /\ managers.ok
     THEN [ok |-> TRUE,
           worker |->
             [total |-> Len(workers.rows),
              satisfaction |-> aggregate(workers.rows, AnalysisFields.satisfaction),
              supervision |-> aggregate(workers.rows, AnalysisFields.supervision),
              salary |-> aggregate(workers.rows, AnalysisFields.salary),
              hours |-> aggregate(workers.rows, AnalysisFields.hours),
              appreciation |-> aggregate(workers.rows, AnalysisFields.appreciation),
              stability |-> aggregate(workers.rows, AnalysisFields.stability),
              recommendation |-> aggregate(workers.rows, AnalysisFields.recommendation),
              violations |-> aggregateMulti(workers.rows, AnalysisFields.violations),
              branches |-> aggregate(workers.rows, BranchKey),
              dissatisfactionByBranch |-> aggregate(dissatisfiedWorkers, BranchKey),
              timeline |-> getTimeline(workers.rows)],
           manager |->
             [total |-> Len(managers.rows),
              branches |-> aggregate(managers.rows, BranchKey),
              durations |-> aggregate(managers.rows, AnalysisFields.durations),
              timeline |-> getTimeline(managers.rows)]]
     ELSE [ok |-> FALSE]

(***************************************************************************)
(* C21: the field names written into the JSON paths.                       *)
(***************************************************************************)
\* the survey question names the storage module knows
KnownQuestions == {AnalysisFields[f] : f \in DOMAIN AnalysisFields} \cup {BranchKey}

\* the field names buildWhereClause writes into JSON paths for a query string
\* of GET /api/surveys
InterpolatedFields(query) ==
  LET search == IF Truthy(query.search) THEN query.search ELSE Str(<<>>)
      filters == IF query.filters.t = "undefined" THEN Obj(<<>>) ELSE query.filters
      w == buildWhereClause(search, filters, IS_MYSQL).whereFragment
  IN {SubSeq(w[i].path, 3, Len(w[i].path)) :
        i \in {j \in 1..Len(w) : w[j].kind = "jsonIn"}}

\* C21 (as stated): every field name that buildWhereClause interpolates into a
\* JSON-path expression of the SQL fragment belongs to the closed set of
\* known survey question names, for every request an authenticated client
\* can send to GET /api/surveys.
C21_FieldNamesKnown ==
  (last.op = "surveys" /\ last.cookie = Str(SESSION_SECRET) /\ last.status \in {200, 500})
    => InterpolatedFields(last.query) \subseteq KnownQuestions

(***************************************************************************)
(* C22: the aggregation against the records it reads.                      *)
(***************************************************************************)
\* the worker and manager forms submitted: a dissatisfied and a satisfied
\* worker of one branch (the second with a blank after the name), a
\* dissatisfied worker of another branch with two violations, and a manager
AnalysisSaveInputs ==
  {[type |-> Str(Worker),
    data |-> Obj(<<Prop(BranchKey, Str(Aleppo)),
                   Prop(AnalysisFields.satisfaction, Str(NeverSatisfied))>>)],
   [type |-> Str(Worker),
    data |-> Obj(<<Prop(BranchKey, Str(Aleppo \o <<" ">>)),
                   Prop(AnalysisFields.satisfaction, Str(Yes))>>)],
   [type |-> Str(Worker),
    data |-> Obj(<<Prop(BranchKey, Str(Homs)),
                   Prop(AnalysisFields.satisfaction, Str(NeverSatisfied)),
                   Prop(AnalysisFields.violations, Str(<<"a", ",", " ", "b", ",", "a">>))>>)],
   [type |-> Str(Manager),
    data |-> Obj(<<Prop(BranchKey, Str(Aleppo)),
                   Prop(AnalysisFields.durations, Str(<<"2">>))>>)]}

\* the branch names handed to the aggregation: none, and a name
BranchNameInputs == {SqlNull, Str(Aleppo)}

\* a call of getAnalysisAggregation(branchName)
GetAnalysis(branchName) ==
  /\ last' = [op |-> "analysis", branchName |-> branchName, read |-> tables]
               @@ getAnalysisAggregation(branchName)
  /\ UNCHANGED <<IS_MYSQL, tables, settings, now, lockLog, pass, store>>

NextAnalysis ==
  \/ Tick
  \/ \E r \in AnalysisSaveInputs : SaveSurvey(r.type, r.data)
  \/ \E branchName \in BranchNameInputs : GetAnalysis(branchName)

SpecAnalysis == Init /\ [][NextAnalysis]_vars

\* the sum of the counts of a counts object
RECURSIVE SumOfCounts(_)
SumOfCounts(counts) ==
  IF DOMAIN counts = {} THEN 0
  ELSE LET k == CHOOSE k \in DOMAIN counts : TRUE
       IN counts[k] + SumOfCounts([j \in DOMAIN counts \ {k} |-> counts[j]])

\* the worker rows the call reads: all of them, or those whose payload holds
\* the branch name handed over
WorkersRead(rows, branchName) ==
  {i \in 1..Len(rows) :
     Truthy(branchName) => Get(JsonParse(rows[i].data), BranchKey) = branchName}

\* C22: getAnalysisAggregation is consistent with the records it reads:
\* worker.total equals the number of worker records, the daily timeline counts
\* sum to that total, and for every branch b dissatisfactionByBranch[b] <=
\* branches[b]; the call changes no stored record or setting.
C22_AggregationConsistent ==
  /\ [](last.op = "analysis" /\ last.ok
          => /\ last.worker.total
                  = Cardinality(WorkersRead(last.read["workers"], last.branchName))
             /\ SumOfCounts(last.worker.timeline) = last.worker.total
             /\ \A b \in DOMAIN last.worker.dissatisfactionByBranch :
                  /\ b \in DOMAIN last.worker.branches
                  /\ last.worker.dissatisfactionByBranch[b] <= last.worker.branches[b])
  /\ [][last'.op = "analysis" /\ last' # last
          => tables' = tables /\ settings' = settings]_vars

\* an aggregation over two workers of one branch submitted on the same day,
\* one of them dissatisfied
C22_Witness ==
  /\ last.op = "analysis"
  /\ last.ok
  /\ last.worker.total = 2
  /\ \E b \in DOMAIN last.worker.dissatisfactionByBranch :
       /\ last.worker.branches[b] = 2
       /\ last.worker.dissatisfactionByBranch[b] = 1
  /\ \E d \in DOMAIN last.worker.timeline : last.worker.timeline[d] = 2

(***************************************************************************)
(* C23: pages of GET /api/surveys (SpecPages).  ORDER BY receivedAt DESC    *)
(* names no second column, so the engine is free in the order of rows with *)
(* the same receivedAt, statement by statement.                            *)
(***************************************************************************)
\* the orders a SELECT ... ORDER BY receivedAt DESC can return the rows in
OrderByReceivedAtDescOutcomes(rows) ==
  LET n == Len(rows)
      scans == {p \in [1..n -> 1..n] : \A i, j \in 1..n : i # j => p[i] # p[j]}
  IN {OrderByReceivedAtDesc([i \in 1..n |-> rows[p[i]]]) : p \in scans}

\* the results getAllManagers / getAllWorkers can return
getAllOutcomes(table, limit, offset, search, filters) ==
  LET w == buildWhereClause(search, filters, IS_MYSQL)
      queryParams == getAllQueryParams(limit, offset, search, filters)
      np == Len(w.params)
      page(ordered) ==
        IF limit = All THEN ordered
        ELSE LimitOffset(ordered, queryParams[np + 1].n, queryParams[np + 2].n)
  IN IF ~getAll(table, limit, offset, search, filters).ok THEN {[ok |-> FALSE]}
     ELSE {[ok |-> TRUE,
            rows |-> [i \in 1..Len(page(ordered)) |-> RecordOf(page(ordered)[i])]] :
             ordered \in OrderByReceivedAtDescOutcomes(
                           SqlWhere(tables[table], w.whereFragment, w.params))}

\* the responses the handler of GET /api/surveys can give
surveysOutcomes(query) ==
  LET limit == surveysPaging(query).limit
      offset == surveysPaging(query).offset
      search == IF Truthy(query.search) THEN query.search ELSE Str(<<>>)
      filters == IF query.filters.t = "undefined" THEN Obj(<<>>) ELSE query.filters
  IN {IF response.status # 200 THEN response
      ELSE [response EXCEPT !.managers = managers.rows, !.workers = workers.rows] :
        response \in {surveysHandler(query)},
        managers \in getAllOutcomes("managers", limit, offset, search, filters),
        workers \in getAllOutcomes("workers", limit, offset, search, filters)}

\* GET /api/surveys answered with one of the responses it can give
GetSurveysPage(path, cookie, query) ==
  LET d == Dispatch("GET", path, cookie)
      head == [op |-> "surveys", route |-> Route("GET", path), cookie |-> cookie,
               query |-> query]
  IN /\ \E response \in surveysOutcomes(query) :
          last' = IF d = "surveys" THEN head @@ response
                  ELSE head @@ [status |-> IF d = "401" THEN 401 ELSE 404]
     /\ UNCHANGED <<IS_MYSQL, tables, settings, now, lockLog, pass, store>>

\* the entry added to a table: an answer, stored under a generated id
PageEntry(table) ==
  IF table = "managers" THEN PlainData(Aleppo, Yes).p ELSE PlainData(Homs, No).p

\* the filters of the paged requests
PageFilters == {Undefined, CityFilter}

PageQuery(p, L, filters) ==
  [page |-> Str(DecStr(p)), limit |-> Str(DecStr(L)), search |-> Undefined,
   filters |-> filters]

AllQuery(filters) ==
  [page |-> Undefined, limit |-> All, search |-> Undefined, filters |-> filters]

\* the requests sent: the first two pages of limit 1, a page of limit 2 under
\* a filter, and the whole list
PageQueries ==
  {PageQuery(1, 1, Undefined), PageQuery(2, 1, Undefined),
   PageQuery(1, 2, CityFilter), AllQuery(Undefined)}

\* managers are added with either outcome of the random text, so that two
\* of them can be received at the same instant
NextPages ==
  \/ Tick
  \/ \E rnd \in RandomInputs : AddEntry("managers", PageEntry("managers"), rnd)
  \/ AddEntry("workers", PageEntry("workers"), <<>>)
  \/ \E q \in PageQueries : GetSurveysPage(PathSurveys, Str(SESSION_SECRET), q)

SpecPages == Init /\ [][NextPages]_vars

\* the slice (p-1)*L .. p*L-1 of a list, counting from 0
Slice(list, p, L) ==
  IF (p - 1) * L >= Len(list) THEN <<>>
  ELSE SubSeq(list, (p - 1) * L + 1, IF p * L > Len(list) THEN Len(list) ELSE p * L)

\* the list of a table in a response
ListOf(response, table) ==
  IF table = "managers" THEN response.managers ELSE response.workers

\* every response for page p with limit L holds page p and, for each of the
\* tables named, at most L records that are the slice of every limit=all list
PagesAreSlices(names) ==
  \A filters \in PageFilters :
    LET alls == surveysOutcomes(AllQuery(filters))
    IN \A L \in 1..MaxRows : \A p \in 1..MaxRows :
         LET pageds == surveysOutcomes(PageQuery(p, L, filters))
         IN \A paged \in pageds : \A all \in alls :
              (paged.status = 200 /\ all.status = 200)
                => /\ paged.pagination.page = p
                   /\ \A table \in names :
                        /\ Len(ListOf(paged, table)) <= L
                        /\ ListOf(paged, table) = Slice(ListOf(all, table), p, L)

\* the lists obtained by concatenating the managers of pages p..last
RECURSIVE ConcatenatedPages(_, _, _, _)
ConcatenatedPages(p, lastPage, L, filters) ==
  IF p > lastPage THEN {<<>>}
  ELSE LET pageds == {paged.managers : paged \in surveysOutcomes(PageQuery(p, L, filters))}
           rests == ConcatenatedPages(p + 1, lastPage, L, filters)
       IN {paged \o rest : paged \in pageds, rest \in rests}

\* the pages 1..totalPagesManagers concatenated are the limit=all list
PagesCoverAll ==
  \A filters \in PageFilters :
    LET alls == {all.managers : all \in surveysOutcomes(AllQuery(filters))}
    IN \A L \in 1..MaxRows :
         LET first == surveysHandler(PageQuery(1, L, filters))
         IN first.status = 200
              => LET concatenated ==
                       ConcatenatedPages(1, first.pagination.totalPagesManagers,
                                         L, filters)
                 IN \A pages \in concatenated : \A all \in alls : pages = all

\* no two rows of the table hold the same receivedAt
DistinctReceivedAt(table) ==
  \A i, j \in 1..Len(tables[table]) :
    i # j => tables[table][i].receivedAt # tables[table][j].receivedAt

\* C23 (as stated): for GET /api/surveys with numeric limit L >= 1 and page
\* p >= 1 on an unchanging store, pagination.page = p, each of
\* managers/workers holds at most L records and is the slice (p-1)*L .. p*L-1
\* of the full ordered list, and concatenating pages 1..totalPagesManagers
\* yields exactly the limit=all list with no record missing or repeated.
C23_PagesAreSlicesOfAll ==
  /\ PagesAreSlices(TableNames)
  /\ PagesCoverAll

\* C23 (amended): the same, for a collection in which no two records hold
\* the same receivedAt.
C23_PagesAreSlicesWithoutTies ==
  /\ PagesAreSlices({table \in TableNames : DistinctReceivedAt(table)})
  /\ DistinctReceivedAt("managers") => PagesCoverAll

\* the second page of limit 1 answered over two managers received at
\* different instants
C23_Witness ==
  /\ last.op = "surveys"
  /\ last.status = 200
  /\ last.query = PageQuery(2, 1, Undefined)
  /\ Len(tables["managers"]) = 2
  /\ DistinctReceivedAt("managers")
  /\ Len(last.managers) = 1
  /\ last.pagination.totalPagesManagers = 2

(***************************************************************************)
(* C24: placeholders and parameters of buildWhereClause.                   *)
(***************************************************************************)
\* the number of '?' of a key that the driver takes for placeholders once the
\* key stands in the quoted path '$.<key>': the networked engine's driver
\* substitutes every '?' of the statement text, the embedded engine those
\* outside a quoted text (a quote in the key ends the quoted path)
RECURSIVE KeyPlaceholders(_, _, _)
KeyPlaceholders(key, quoted, isMysql) ==
  IF key = <<>> THEN 0
  ELSE IF key[1] = "'" THEN KeyPlaceholders(Tail(key), ~quoted, isMysql)
  ELSE (IF key[1] = "?" /\ (isMysql \/ ~quoted) THEN 1 ELSE 0)
       + KeyPlaceholders(Tail(key), quoted, isMysql)

\* the placeholders of the text of a condition
Placeholders(c, isMysql) ==
  IF c.kind = "jsonIn"
  THEN c.n + KeyPlaceholders(SubSeq(c.path, 3, Len(c.path)), TRUE, isMysql)
  ELSE c.n

\* the placeholders of a fragment
RECURSIVE FragmentPlaceholders(_, _)
FragmentPlaceholders(whereFragment, isMysql) ==
  IF whereFragment = <<>> THEN 0
  ELSE Placeholders(whereFragment[1], isMysql)
       + FragmentPlaceholders(Tail(whereFragment), isMysql)

\* filters whose key holds a question mark, and a quote before one
QuestionMarkFilter == Obj(<<Prop(<<"a", "?">>, Arr(<<Str(<<"v">>)>>))>>)

QuotedFilter == Obj(<<Prop(<<"a", "'", "?">>, Arr(<<Str(<<"v">>)>>))>>)

\* the searches and filters handed to buildWhereClause
WhereSearchInputs == {Undefined, Str(<<>>), Str(Homs)}

WhereFilterInputs ==
  FilterInputs \cup EmptyFilterInputs \cup {QuestionMarkFilter, QuotedFilter}

\* the parameters in the order stated: the two search patterns, then the
\* values of each key whose value is a non-empty list
ExpectedParams(search, filters) ==
  LET pattern == Str(<<"%">> \o JsString(search) \o <<"%">>)
      entries == OwnProps(filters)
      listed == SelectSeq(entries, LAMBDA e : e.v.t = "array" /\ Len(e.v.a) > 0)
  IN (IF Truthy(search) THEN <<pattern, pattern>> ELSE <<>>)
     \o Concat([i \in 1..Len(listed) |-> listed[i].v.a])

\* C24 (as stated): for every search and filters input, the number of '?'
\* placeholders in the fragment returned by buildWhereClause equals the
\* length of the returned parameter list, and the parameters appear in the
\* same left-to-right order as their placeholders (two search patterns first,
\* then each filter key's values).
C24_PlaceholdersMatchParams ==
  \A search \in WhereSearchInputs : \A filters \in WhereFilterInputs :
    LET w == buildWhereClause(search, filters, IS_MYSQL)
    IN /\ FragmentPlaceholders(w.whereFragment, IS_MYSQL) = Len(w.params)
       /\ w.params = ExpectedParams(search, filters)

(***************************************************************************)
(* C25: submissions and the lock flags (SpecGate).                         *)
(***************************************************************************)
\* the lock writes of the signed-in client
GateLockInputs ==
  {[type |-> Str(Worker), locked |-> Bool(TRUE)],
   [type |-> Str(Worker), locked |-> Bool(FALSE)],
   [type |-> Str(Manager), locked |-> Bool(TRUE)]}

\* the forms submitted
GateSaveInputs ==
  {[type |-> Str(Worker), data |-> ScenarioData],
   [type |-> Str(Manager), data |-> ScenarioData]}

NextGate ==
  \/ Tick
  \/ \E r \in GateSaveInputs : SaveSurvey(r.type, r.data)
  \/ \E r \in GateLockInputs :
       PostSurveyLocks(PathSurveyLocks, Str(SESSION_SECRET), r.type, r.locked)
  \/ GetSurveyLocks

SpecGate == Init /\ [][NextGate]_vars

\* the outcome of a valid submission of a kind where its lock flag is false:
\* the record is appended under the id of the instant and the answer is
\* success, unless the id is taken and the answer is 500
StoredAsUnlocked(type) ==
  LET table == TableOf(type)
  IN IF DecStr(now) \in Ids(tables[table])
     THEN /\ last'.status = 500
          /\ tables' = tables
     ELSE /\ last'.status = 200
          /\ Len(tables'[table]) = Len(tables[table]) + 1
          /\ SubSeq(tables'[table], 1, Len(tables[table])) = tables[table]
          /\ tables'[table][Len(tables'[table])].id = DecStr(now)
          /\ \A other \in TableNames \ {table} : tables'[other] = tables[other]

\* C25: POST /api/save-survey never reads the lock flags: for every lock
\* state, a valid submission of a kind is stored and answered with success
\* exactly as when that kind's lock flag is false.
C25_SaveIgnoresLocks ==
  [][(/\ last' # last
      /\ last'.op = "saveSurvey"
      /\ last'.type \in {Str(Manager), Str(Worker)}
      /\ Truthy(last'.data))
       => /\ StoredAsUnlocked(last'.type)
          /\ settings' = settings]_vars

\* a worker form was stored and answered with success while the worker lock
\* flag was set
C25_Witness ==
  /\ last.op = "saveSurvey"
  /\ last.type = Str(Worker)
  /\ last.status = 200
  /\ getSurveyLockStatus.worker
  /\ \E i \in 1..Len(tables["workers"]) : tables["workers"][i].id = last.id

(***************************************************************************)
(* C26: the auth cookie.                                                   *)
(***************************************************************************)
\* C26: the auth cookie value set by POST /api/login is the same for every
\* successful login and keeps being accepted by the auth middleware after
\* GET /api/logout: the server holds no per-session state, so a request
\* carrying a previously issued cookie value is authorized in every later
\* state.
C26_CookieOutlivesLogout ==
  /\ []((last.op = "login" /\ last.status = 200)
          => last.setCookie = Str(SESSION_SECRET))
  /\ [][(/\ last' # last
         /\ "cookie" \in DOMAIN last'
         /\ last'.cookie = Str(SESSION_SECRET))
          => last'.status \notin {401, 302}]_vars

\* a request carrying the cookie value was served by its handler right after
\* a logout
C26_Witness ==
  /\ last.op = "backup"
  /\ last.afterLogout
  /\ last.cookie = Str(SESSION_SECRET)
  /\ last.route = "backup"
  /\ last.status \in {200, 400}

(***************************************************************************)
(* C27: what a pass of cleanBranchNames leaves alone (SpecFrame).          *)
(***************************************************************************)
\* the forms submitted: a worker's branch to be rewritten next to another
\* answer, and a manager's branch under a key that only contains the word for
\* station
FrameSaveInputs ==
  {[type |-> Str(Worker), data |-> ScenarioData],
   [type |-> Str(Manager),
    data |-> Obj(<<Prop(FairKey, Str(Yes)), Prop(StationKey, Str(JisrAlShughur))>>)]}

NextFrame ==
  \/ Tick
  \/ \E r \in FrameSaveInputs : SaveSurvey(r.type, r.data)
  \/ PostSurveyLocks(PathSurveyLocks, Str(SESSION_SECRET), Str(Worker), Bool(TRUE))
  \/ CleanBranchNames

SpecFrame == Init /\ [][NextFrame]_vars

\* the keys of a payload
KeysOf(data) == {data[i].k : i \in 1..Len(data)}

\* two rows are the same but for the branch field located in the first
SameButBranch(before, after) ==
  LET old == JsonParse(before.data)
      new == JsonParse(after.data)
  IN /\ after.id = before.id
     /\ after.receivedAt = before.receivedAt
     /\ KeysOf(new) = KeysOf(old)
     /\ \A k \in KeysOf(old) \ {LocateBranchKey(old)} : Get(new, k) = Get(old, k)

\* C27: a cleanBranchNames pass changes nothing but the located branch field
\* of payloads: the set of record ids in each collection, every receivedAt,
\* every other payload key and value, and the lock flags are the same after
\* the pass as before it.
C27_PassChangesBranchOnly ==
  [][(last' # last /\ last'.op = "cleanBranchNames")
       => /\ settings' = settings
          /\ \A table \in TableNames :
               /\ Len(tables'[table]) = Len(tables[table])
               /\ Ids(tables'[table]) = Ids(tables[table])
               /\ \A i \in 1..Len(tables[table]) :
                    SameButBranch(tables[table][i], tables'[table][i])]_vars

\* a pass rewrote the branch of a worker whose payload holds another answer,
\* while a lock flag was set
C27_Witness ==
  /\ last.op = "cleanBranchNames"
  /\ last.updatedCount >= 1
  /\ settings # <<>>
  /\ \E i \in 1..Len(tables["workers"]) :
       /\ tables["workers"][i].data # last.read["workers"][i].data
       /\ Get(JsonParse(tables["workers"][i].data), FairKey) = Str(Yes)

(***************************************************************************)
(* C28: a pass of cleanBranchNames among additions and deletions           *)
(* (SpecRace).                                                             *)
(***************************************************************************)
\* the worker forms submitted while a pass may be running: a branch the pass
\* rewrites, and a branch that is a canonical name already
RaceSaveInputs ==
  {[type |-> Str(Worker), data |-> ScenarioData],
   [type |-> Str(Worker), data |-> Obj(<<Prop(BranchKey, Str(Homs))>>)]}

NextRace ==
  \/ Tick
  \/ \E b \in RaceSaveInputs : SaveSurvey(b.type, b.data)
  \/ DeleteSurvey(PathSurveyPrefix, Worker, DecStr(0), Str(SESSION_SECRET))
  \/ ~IS_MYSQL /\ CleanBranchNames
  \/ CleanStart
  \/ CleanSelect
  \/ CleanUpdate

SpecRace == Init /\ [][NextRace]_vars

\* a step of the pass: the call, the answer to a SELECT or to an UPDATE, or
\* the whole pass of the embedded engine
PassStep == pass' # pass \/ (last' # last /\ last'.op = "cleanBranchNames")

\* the rows of a table that a step changes
Touched(table) ==
  {i \in 1..Len(tables[table]) :
     i > Len(tables'[table]) \/ tables'[table][i] # tables[table][i]}

\* the pass adds no row, so it re-creates no record that was deleted
PassAddsNoRow ==
  \A table \in TableNames :
    /\ Len(tables'[table]) = Len(tables[table])
    /\ Ids(tables'[table]) = Ids(tables[table])

\* the rows read by a SELECT hold each id once, and the loop moves on after
\* every UPDATE
VisitsOnce ==
  /\ (pass.pc = "update" /\ pass'.pc = "update" /\ pass'.t = pass.t) => pass'.i > pass.i
  /\ pass'.pc # "idle" =>
       \A i, j \in 1..Len(pass'.rows) : i # j => pass'.rows[i].id # pass'.rows[j].id

\* the rows an UPDATE changes are records that were read by the SELECT
TouchesScannedOnly ==
  pass.pc = "update" =>
    \A table \in TableNames : \A i \in Touched(table) :
      /\ table = PassTables[pass.t]
      /\ \E j \in 1..Len(pass.rows) : pass.rows[j] = tables[table][i]

\* the rows an UPDATE changes are stored under the id of the record the loop
\* is at
TouchesScannedIdsOnly ==
  pass.pc = "update" =>
    \A table \in TableNames : \A i \in Touched(table) :
      /\ table = PassTables[pass.t]
      /\ tables[table][i].id = pass.rows[pass.i].id

\* C28 (as stated): under any interleaving of a cleanBranchNames pass with
\* concurrent add and delete requests, a record deleted during the pass is
\* never re-created by the pass, each record present when its table was
\* scanned is visited at most once, and a record added after the scan of its
\* table is left untouched.
C28_PassSparesLaterRecords ==
  [][PassStep => PassAddsNoRow /\ VisitsOnce /\ TouchesScannedOnly]_vars

\* C28 (amended): a record deleted during the pass is never re-created by the
\* pass, each record present when its table was scanned is visited at most
\* once, and a record added after the scan of its table is left untouched
\* unless it is stored under the id of a record that was scanned.
C28_PassSparesOtherIds ==
  [][PassStep => PassAddsNoRow /\ VisitsOnce /\ TouchesScannedIdsOnly]_vars

\* a pass that rewrote a record has returned, and a record that was added
\* after the scan of its table still holds the branch as it was submitted
C28_Witness ==
  /\ IS_MYSQL
  /\ last.op = "cleanBranchNames"
  /\ last.disturbed
  /\ last.updatedCount >= 1
  /\ pass.pc = "idle"
  /\ \E i, j \in 1..Len(tables["workers"]) :
       /\ cleanRow(tables["workers"][i]).update
       /\ Get(JsonParse(tables["workers"][j].data), BranchKey) = Str(Idlib)

(***************************************************************************)
(* C29: data queries and the creation of the tables.                       *)
(***************************************************************************)
\* C29 (as stated): with the networked engine, under any interleaving of
\* concurrent first calls (such as the four parallel queries of GET
\* /api/surveys) and also after a failed schema creation, no operation issues
\* a data query on the pool before the creation of the managers, workers and
\* settings tables has completed successfully.
C29_NoQueryBeforeSchema ==
  \A c \in 1..MaxCallers : store.calls[c].pc = "holds" => store.schema

(***************************************************************************)
(* C30: what a delete leaves alone (SpecDelete).                           *)
(***************************************************************************)
\* the ids handed to deleteManager / deleteWorker: the ids of the instants,
\* and the first of them followed by a blank
DeleteIdInputs == IdInputs \cup {DecStr(0) \o <<" ">>}

NextDelete ==
  \/ Tick
  \/ \E type \in {Worker, Manager} : SaveSurvey(Str(type), ScenarioData)
  \/ PostSurveyLocks(PathSurveyLocks, Str(SESSION_SECRET), Str(Worker), Bool(TRUE))
  \/ \E table \in TableNames : \E id \in DeleteIdInputs : DeleteRecord(table, id)

SpecDelete == Init /\ [][NextDelete]_vars

\* a step of deleteManager / deleteWorker
DeleteStep == last' # last /\ last'.op = "delete"

\* the other collection and the lock flags are as they were, and at most one
\* row of the collection is gone
DeleteFrame ==
  /\ settings' = settings
  /\ \A other \in TableNames \ {last'.table} : tables'[other] = tables[other]
  /\ Len(tables[last'.table]) - Len(tables'[last'.table]) \in {0, 1}

====
